---- MODULE Spec2Model ----
(***************************************************************************)
(* Tool registry, dispatcher and the HTTP query orchestrators of           *)
(* debug-nodejs-llm-tools: tools.js, the registry-based server (POST       *)
(* /query and POST /query-gemini) and the two-tool server.js (POST /query).*)
(* Every await of a handler is a step boundary: an action runs the code    *)
(* from one await to the next.                                             *)
(***************************************************************************)
EXTENDS Integers, Sequences, FiniteSets, TLC

VARIABLES
    TOOL_REGISTRY,  \* tools.js: Map name -> { name, description, parameters, handler }
    dcall,          \* one direct invocation of dispatch(toolName, args) by a caller
    reqs,           \* the HTTP requests being served: request id -> handler frame
    registryOrder,  \* the keys of TOOL_REGISTRY in the Map's insertion order
    rcall,          \* the latest call of registerTool or of a catalog projection
    fn,             \* one direct invocation of a function of functions.js
    sh              \* setup-secrets.sh: the script's run and the project's secret store

vars == <<TOOL_REGISTRY, dcall, reqs, registryOrder, rcall, fn, sh>>

(***************************************************************************)
(* Bounds of the model                                                     *)
(***************************************************************************)
MaxCalls == 2        \* most tool calls one round-1 response names
MaxDirect == 2       \* most direct dispatch invocations in one behaviour

(***************************************************************************)
(* JavaScript values                                                       *)
(***************************************************************************)
Undefined == [t |-> "undefined"]
Null == [t |-> "null"]
EmptyObj == [t |-> "obj", v |-> "{}"]
Str(s) == [t |-> "str", v |-> s]
Num(s) == [t |-> "num", v |-> s]
Obj(s) == [t |-> "obj", v |-> s]

\* JavaScript ToBoolean, as used by `!x`, `x || y`, `c ? a : b`
Truthy(x) ==
    CASE x.t \in {"undefined", "null"} -> FALSE
      [] x.t = "str" -> x.v # ""
      [] x.t = "num" -> x.v \notin {"0", "NaN"}
      [] x.t = "bool" -> x.v = "true"
      [] x.t = "q" -> x.num # 0
      [] OTHER -> TRUE

\* a || b
Or(a, b) == IF Truthy(a) THEN a ELSE b

\* an Error object; String(err) is "name: message", or the name alone
Err(name, message) == [name |-> name, message |-> message]
ErrToString(err) ==
    IF err.message = "" THEN err.name ELSE err.name \o ": " \o err.message

Return(v) == [kind |-> "return", value |-> v]
Throw(e) == [kind |-> "throw", err |-> e]

(***************************************************************************)
(* functions.js: what a tool handler can do once invoked                   *)
(***************************************************************************)
NewsOutcomes ==
    { Return([items |-> "articles"]),
      Return([error |-> "No articles found or invalid response."]),
      Throw(Err("FetchError", "request to https://newsapi.org failed")) }

PlacesOutcomes ==
    { Return([items |-> "places"]),
      Throw(Err("Error", "APIFY_TOKEN is not set in environment.")),
      Throw(Err("Error", "Apify run timed out.")) }

ConvertOutcomes ==
    { Return([output |-> "number"]),
      Return([error |-> "value must be a number"]) }

TimeOutcomes == { Return([now |-> "ISO-8601"]) }

HandlerOutcomes(handler) ==
    CASE handler = "get_latest_news" -> NewsOutcomes
      [] handler = "get_google_places" -> PlacesOutcomes
      [] handler = "convert_units" -> ConvertOutcomes
      [] handler = "get_time" -> TimeOutcomes

(***************************************************************************)
(* tools.js                                                                *)
(***************************************************************************)
Descriptor(name, description, parameters, handler) ==
    [name |-> name, description |-> description,
     parameters |-> parameters, handler |-> handler]

\* the four registerTool calls made while the server module loads
BootRegistry ==
    [n \in {"get_latest_news", "get_google_places", "convert_units", "get_time"} |->
        CASE n = "get_latest_news" ->
               Descriptor(n, "Fetch latest news headlines on a topic.",
                          "topic,language", "get_latest_news")
          [] n = "get_google_places" ->
               Descriptor(n, "Find recommended places (e.g., restaurants) in a city using Apify Google Places.",
                          "city,query,language,maxResults", "get_google_places")
          [] n = "convert_units" ->
               Descriptor(n, "Convert units: c_to_f, f_to_c, km_to_miles.",
                          "kind,value", "convert_units")
          [] n = "get_time" ->
               Descriptor(n, "Return current server time in ISO format.",
                          "", "get_time")]

\* the names a caller or a model may ask for: the registered ones and one that is not
UnknownName == "get_weather"
ToolNames == DOMAIN BootRegistry \cup {UnknownName}

\* the registry of a freshly loaded tools.js: new Map()
EmptyRegistry == [n \in {} |-> Descriptor("", "", "", "")]

\* `!name` of registerTool is false: the name is present and not the empty string
NameGiven(spec) == "name" \in DOMAIN spec /\ spec.name # ""

\* Map.set that keeps the entry a key already has
MapSetKeepFirst(registry, order, key, value) ==
    [registry |-> [x \in DOMAIN registry \cup {key} |->
                       IF x \in DOMAIN registry THEN registry[x] ELSE value],
     order |-> IF key \in DOMAIN registry THEN order ELSE Append(order, key)]

\* TOOL_REGISTRY.set(key, value): a new key goes to the end of the insertion
\* order, an existing key keeps its place and gets the new value
MapSet(registry, order, key, value) ==
    [registry |-> [x \in DOMAIN registry \cup {key} |->
                       IF x = key THEN value ELSE registry[x]],
     order |-> IF key \in DOMAIN registry THEN order ELSE Append(order, key)]

\* registerTool without its first line: whatever name came is used as the key
registerToolNoNameCheck(registry, order, spec, handler) ==
    LET name == IF "name" \in DOMAIN spec THEN spec.name ELSE "undefined"
        m == MapSet(registry, order, name,
                    Descriptor(name, spec.description, spec.parameters, handler))
    IN [threw |-> FALSE, error |-> "", registry |-> m.registry, order |-> m.order]

\* registerTool({ name, description, parameters }, handler)
registerTool(registry, order, spec, handler) ==
    IF ~NameGiven(spec)
    THEN [threw |-> TRUE, error |-> "Tool must have a name",
          registry |-> registry, order |-> order]
    ELSE LET m == MapSet(registry, order, spec.name,
                         Descriptor(spec.name, spec.description,
                                    spec.parameters, handler))
         IN [threw |-> FALSE, error |-> "", registry |-> m.registry,
             order |-> m.order]

\* listToolsForOpenAI that reports the tool's name as its description
listToolsForOpenAINameAsDescription(registry, order) ==
    [k \in 1..Len(order) |->
        [type |-> "function",
         function |-> [name |-> registry[order[k]].name,
                       description |-> registry[order[k]].name,
                       parameters |-> registry[order[k]].parameters]]]

\* listToolsForOpenAI(): one entry per registry value, in the Map's order
listToolsForOpenAI(registry, order) ==
    [k \in 1..Len(order) |->
        [type |-> "function",
         function |-> [name |-> registry[order[k]].name,
                       description |-> registry[order[k]].description,
                       parameters |-> registry[order[k]].parameters]]]

\* listToolsForGemini(): a one-element list holding all function declarations
listToolsForGemini(registry, order) ==
    << [functionDeclarations |->
           [k \in 1..Len(order) |->
               [name |-> registry[order[k]].name,
                description |-> registry[order[k]].description,
                parameters |-> registry[order[k]].parameters]]] >>

\* dispatch without the `if (!spec)` return: reading spec.handler of undefined
\* fails inside the try and the catch reports that failure
dispatchStartNoLookupCheck(registry, toolName, args) ==
    IF toolName \notin DOMAIN registry
    THEN [invoked |-> FALSE, handler |-> "", handlerArgs |-> Undefined,
          result |-> Return([error |-> "Cannot read properties of undefined (reading 'handler')"])]
    ELSE [invoked |-> TRUE, handler |-> registry[toolName].handler,
          handlerArgs |-> Or(args, EmptyObj),
          result |-> Return(Undefined)]

\* dispatch, up to its await: the registry lookup, the unknown-tool return,
\* and the invocation of the handler with `args || {}`
dispatchStart(registry, toolName, args) ==
    IF toolName \notin DOMAIN registry
    THEN [invoked |-> FALSE, handler |-> "", handlerArgs |-> Undefined,
          result |-> Return([error |-> "Unknown tool: " \o toolName])]
    ELSE [invoked |-> TRUE, handler |-> registry[toolName].handler,
          handlerArgs |-> Or(args, EmptyObj),
          result |-> Return(Undefined)]

\* dispatch without its try/catch: the handler's failure reaches the caller
dispatchSettleNoCatch(outcome) ==
    IF outcome.kind = "throw"
    THEN Throw(outcome.err)
    ELSE Return(outcome.value)

\* dispatch, after its await: the handler's value, or the catch clause
dispatchSettle(outcome) ==
    IF outcome.kind = "throw"
    THEN Return([error |-> IF outcome.err.message # ""
                           THEN outcome.err.message
                           ELSE ErrToString(outcome.err)])
    ELSE Return(outcome.value)

(***************************************************************************)
(* A caller invoking dispatch directly                                     *)
(***************************************************************************)
DirectArgs == {Undefined, Null, EmptyObj, Obj("args")}

\* no dispatch in progress
NoDispatch ==
    [invoked |-> FALSE, handler |-> "", handlerArgs |-> Undefined,
     result |-> Return(Undefined)]

IdleCall ==
    [pc |-> "idle", n |-> 0, toolName |-> "", args |-> Undefined,
     d |-> NoDispatch,
     outcome |-> Return(Undefined), result |-> Return(Undefined),
     handlerRuns |-> 0, registryBefore |-> BootRegistry]

\* dispatch(toolName, args) is called; it runs to its await
DispatchCall(toolName, args) ==
    /\ dcall.pc \in {"idle", "settled"}
    /\ dcall.n < MaxDirect
    /\ LET d == dispatchStart(TOOL_REGISTRY, toolName, args)
       IN dcall' = [pc |-> "pending", n |-> dcall.n + 1,
                    toolName |-> toolName, args |-> args, d |-> d,
                    outcome |-> Return(Undefined), result |-> Return(Undefined),
                    handlerRuns |-> IF d.invoked THEN 1 ELSE 0,
                    registryBefore |-> TOOL_REGISTRY]
    /\ UNCHANGED <<TOOL_REGISTRY, reqs, registryOrder, rcall, fn, sh>>

\* the promise dispatch returned settles: at once for an unknown tool,
\* with the handler's outcome otherwise
DispatchSettle ==
    /\ dcall.pc = "pending"
    /\ \E outcome \in IF dcall.d.invoked THEN HandlerOutcomes(dcall.d.handler)
                                          ELSE {Return(Undefined)} :
          dcall' = [dcall EXCEPT
                      !.pc = "settled",
                      !.outcome = outcome,
                      !.result = IF dcall.d.invoked
                                 THEN dispatchSettle(outcome)
                                 ELSE dcall.d.result]
    /\ UNCHANGED <<TOOL_REGISTRY, reqs, registryOrder, rcall, fn, sh>>

(***************************************************************************)
(* A module that registers tools and reads the catalog                     *)
(***************************************************************************)
\* the descriptors and handlers a caller registers: two names, two wordings
\* of the description, the empty name and a descriptor without a name
RegNames == {"convert_units", "get_time"}
RegDescriptions == {"Convert units: c_to_f, f_to_c, km_to_miles.",
                    "Return current server time in ISO format."}
RegSpecs ==
    { [name |-> n, description |-> d, parameters |-> "kind,value"] :
          n \in RegNames \cup {""}, d \in RegDescriptions }
    \cup { [description |-> d, parameters |-> "kind,value"] : d \in RegDescriptions }
RegHandlers == {"convert_units", "get_time"}

\* what each name was last registered with, as the registering caller knows it
NoRegistrations == [n \in {} |-> [spec |-> [name |-> ""], handler |-> ""]]

IdleRegistryCall ==
    [op |-> "none", spec |-> [name |-> ""], handler |-> "", threw |-> FALSE,
     error |-> "", before |-> EmptyRegistry, beforeOrder |-> <<>>,
     listed |-> <<>>, latest |-> NoRegistrations]

\* registerTool(spec, handler) is called and returns or throws
RegisterTool(spec, handler) ==
    /\ LET r == registerTool(TOOL_REGISTRY, registryOrder, spec, handler)
       IN /\ TOOL_REGISTRY' = r.registry
          /\ registryOrder' = r.order
          /\ rcall' = [op |-> "registerTool", spec |-> spec, handler |-> handler,
                       threw |-> r.threw, error |-> r.error,
                       before |-> TOOL_REGISTRY, beforeOrder |-> registryOrder,
                       listed |-> <<>>,
                       latest |-> IF r.threw \/ "name" \notin DOMAIN spec
                                  THEN rcall.latest
                                  ELSE [x \in DOMAIN rcall.latest \cup {spec.name} |->
                                           IF x = spec.name
                                           THEN [spec |-> spec, handler |-> handler]
                                           ELSE rcall.latest[x]]]
    /\ UNCHANGED <<dcall, reqs, fn, sh>>

\* listToolsForOpenAI() is called
ListToolsForOpenAI ==
    /\ rcall' = [rcall EXCEPT
                   !.op = "listToolsForOpenAI", !.spec = [name |-> ""],
                   !.handler = "", !.threw = FALSE, !.error = "",
                   !.before = TOOL_REGISTRY, !.beforeOrder = registryOrder,
                   !.listed = listToolsForOpenAI(TOOL_REGISTRY, registryOrder)]
    /\ UNCHANGED <<TOOL_REGISTRY, registryOrder, dcall, reqs, fn, sh>>

\* listToolsForGemini() is called
ListToolsForGemini ==
    /\ rcall' = [rcall EXCEPT
                   !.op = "listToolsForGemini", !.spec = [name |-> ""],
                   !.handler = "", !.threw = FALSE, !.error = "",
                   !.before = TOOL_REGISTRY, !.beforeOrder = registryOrder,
                   !.listed = listToolsForGemini(TOOL_REGISTRY, registryOrder)]
    /\ UNCHANGED <<TOOL_REGISTRY, registryOrder, dcall, reqs, fn, sh>>

(***************************************************************************)
(* Shapes shared by the request handlers                                   *)
(***************************************************************************)
\* o.f of an object that may lack the field
Prop(o, f) == IF f \in DOMAIN o THEN o[f] ELSE Undefined

\* express.json(): req.body is undefined when no JSON body was parsed,
\* else the parsed object, with or without a `query` field
QueryValues == {Str(""), Str("what time is it?")}
Bodies == {Undefined, [t |-> "obj"]} \cup {[t |-> "obj", query |-> v] : v \in QueryValues}

\* a `query` field of any JSON type: strings, numbers, booleans, an object,
\* an array
QueryShapes ==
    {Str(""), Str("what time is it?"), Num("0"), Num("42"),
     [t |-> "bool", v |-> "false"], [t |-> "bool", v |-> "true"],
     Obj("{}"), [t |-> "array", v |-> "[]"]}
ShapedBodies == {[t |-> "obj", query |-> v] : v \in QueryShapes}

Ev(e, n) == [ev |-> e, n |-> n]

\* JSON.stringify(value): a string that carries the value
JSONStringify(value) == [t |-> "json", of |-> value]

\* JSON.parse(text)
GoodArgs == "{\"topic\":\"ai\"}"
ArgStrings == {"", GoodArgs, "{topic:"}
JSONParse(text) ==
    CASE text = GoodArgs -> Return(Obj(text))
      [] text = "" -> Throw(Err("SyntaxError", "Unexpected end of JSON input"))
      [] OTHER -> Throw(Err("SyntaxError", "Unexpected token t in JSON at position 1"))

\* usage of one chat completion; any of it may be missing
Usage(p, c, t) ==
    [t |-> "usage", prompt_tokens |-> p, completion_tokens |-> c, total_tokens |-> t]
\* a usage object that reports prompt tokens only
PartialUsage == [t |-> "usage", prompt_tokens |-> 7]
Usages == {Undefined, Usage(1000, 500, 1500), PartialUsage}
UsageField(u, f) == IF f \in DOMAIN u THEN u[f] ELSE 0

\* MODEL_PRICING, in nano-dollars per token ($0.005 and $0.015 per 1000 tokens)
PriceInput == 5000
PriceOutput == 15000

\* costFromUsage with the two prices exchanged
costFromUsageSwapped(u) ==
    IF ~Truthy(u) THEN 0
    ELSE UsageField(u, "prompt_tokens") * PriceOutput
         + UsageField(u, "completion_tokens") * PriceInput

costFromUsage(u) ==
    IF ~Truthy(u) THEN 0
    ELSE UsageField(u, "prompt_tokens") * PriceInput
         + UsageField(u, "completion_tokens") * PriceOutput

\* Number(x.toFixed(6)): nano-dollars rounded to whole micro-dollars
toFixed6(nano) == (nano + 500) \div 1000

ProviderErrors == {Err("APIError", "429 You exceeded your current quota")}

IdleFrame ==
    [pc |-> "idle", endpoint |-> "", body |-> Undefined, query |-> Undefined,
     totalTokens |-> 0, totalCost |-> 0,
     assistantMsg |-> Undefined, calls |-> <<>>, i |-> 0,
     d |-> NoDispatch,
     toolResponses |-> <<>>, round2 |-> <<>>,
     res |-> <<>>, uncaught |-> <<>>, log |-> <<>>,
     \* what the outside world answered, recorded as it arrives
     firstOutcome |-> Return(Undefined), finalOutcome |-> Return(Undefined),
     settled |-> <<>>]

SawFirst(q, outcome) == [q EXCEPT !.firstOutcome = outcome]
SawFinal(q, outcome) == [q EXCEPT !.finalOutcome = outcome]
SawTool(q, outcome) ==
    [q EXCEPT !.settled = Append(@, [invoked |-> q.d.invoked, outcome |-> outcome])]

\* res.status(s).json(b) / res.json(b), followed by the handler's return
Respond(q, status, body) ==
    [q EXCEPT !.pc = "done",
              !.res = Append(@, [status |-> status, body |-> body]),
              !.log = Append(@, Ev("respond", status))]

\* a catch clause that also returns what had been computed so far
Catch500Partial(q, err) ==
    Respond(q, 500, [error |-> err.message, tokens_used |-> q.totalTokens])

\* the route-level catch clause of the registry-based handlers
Catch500(q, err) == Respond(q, 500, [error |-> err.message])

MissingQuery == [error |-> "Missing 'query' in request body."]

(***************************************************************************)
(* POST /query: OpenAI chat completions with tools                         *)
(***************************************************************************)
CallId(k) == "call_" \o ToString(k)
ToolCall(k, name, argString) ==
    [id |-> CallId(k), type |-> "function",
     function |-> [name |-> name, arguments |-> argString]]

\* the tool_calls lists a round-1 completion can carry
ToolCallLists ==
    UNION { { [k \in 1..n |-> ToolCall(k, f[k][1], f[k][2])] :
                f \in [1..n -> ToolNames \X ArgStrings] } : n \in 0..MaxCalls }

AssistantMsg(hasCalls, toolCalls) ==
    [role |-> "assistant",
     content |-> IF toolCalls = <<>> THEN Str("direct answer") ELSE Null,
     has_tool_calls |-> hasCalls, tool_calls |-> toolCalls]

\* a chat completion: usage and choices (each choice stands for its message);
\* a completion without choices is a malformed upstream answer
Completion(usage, choices) == [usage |-> usage, choices |-> choices]

FirstCompletions ==
    { Completion(u, <<AssistantMsg(TRUE, tc)>>) : u \in Usages, tc \in ToolCallLists }
    \cup { Completion(u, <<AssistantMsg(FALSE, <<>>)>>) : u \in Usages }
    \cup { Completion(Undefined, <<>>) }

\* round 2 may itself ask for tools: the handler never looks
FinalCompletions ==
    { Completion(u, <<[role |-> "assistant", content |-> Str("summary"),
                       has_tool_calls |-> w,
                       tool_calls |-> IF w THEN <<ToolCall(1, "get_time", "")>> ELSE <<>>]>>) :
        u \in Usages, w \in BOOLEAN }
    \cup { Completion(Undefined, <<>>) }

ProviderOutcomes(completions) ==
    { Return(c) : c \in completions } \cup { Throw(e) : e \in ProviderErrors }

NoChoice == Err("TypeError", "Cannot read properties of undefined (reading 'message')")

\* lines 117-132: validation, then the round-1 request
query_entry(q, body) ==
    LET query == Prop(Or(body, EmptyObj), "query")
        q0 == [q EXCEPT !.endpoint = "/query", !.body = body, !.query = query]
    IN IF ~Truthy(query)
       THEN Respond(q0, 400, MissingQuery)
       ELSE [q0 EXCEPT !.pc = "await_first", !.totalTokens = 0, !.totalCost = 0,
                       !.log = Append(@, Ev("llm_request", 1))]

\* a round-2 request that leaves out the assistant's tool-call turn
query_issueFinalNoAssistant(q) ==
    [q EXCEPT !.pc = "await_final",
              !.round2 = <<[role |-> "user", content |-> q.query]>> \o q.toolResponses,
              !.log = Append(@, Ev("llm_request", 2))]

\* lines 165-173: the round-2 request
query_issueFinal(q) ==
    [q EXCEPT !.pc = "await_final",
              !.round2 = <<[role |-> "user", content |-> q.query], q.assistantMsg>>
                         \o q.toolResponses,
              !.log = Append(@, Ev("llm_request", 2))]

\* a loop head that dispatches with empty arguments when the string does
\* not parse
query_startCallLenient(q) ==
    LET call == q.calls[q.i]
        argString == call.function.arguments
        parsed == IF argString # "" THEN JSONParse(argString) ELSE Return(EmptyObj)
    IN [q EXCEPT !.pc = "await_dispatch",
                 !.d = dispatchStart(TOOL_REGISTRY, call.function.name,
                                     IF parsed.kind = "throw" THEN EmptyObj
                                     ELSE parsed.value),
                 !.log = Append(@, Ev("dispatch", q.i))]

\* lines 151-156: loop head for calls[i], up to the await of dispatch
query_startCall(q) ==
    LET call == q.calls[q.i]
        argString == call.function.arguments
        parsed == IF argString # "" THEN JSONParse(argString) ELSE Return(EmptyObj)
    IN IF parsed.kind = "throw"
       THEN Catch500(q, parsed.err)
       ELSE [q EXCEPT !.pc = "await_dispatch",
                      !.d = dispatchStart(TOOL_REGISTRY, call.function.name, parsed.value),
                      !.log = Append(@, Ev("dispatch", q.i))]

\* line 138: assistantMsg.tool_calls || []
query_toolCalls(assistantMsg) ==
    IF assistantMsg.has_tool_calls THEN assistantMsg.tool_calls ELSE <<>>

\* lines 134-156: after round 1
query_afterFirst(q, outcome) ==
    LET q1 == [q EXCEPT !.log = Append(@, Ev("llm_settled", 1))]
    IN IF outcome.kind = "throw" THEN Catch500(q1, outcome.err)
       ELSE LET first == outcome.value
                usage1 == Or(first.usage, EmptyObj)
                q2 == [q1 EXCEPT !.totalTokens = @ + UsageField(usage1, "total_tokens"),
                                 !.totalCost = @ + costFromUsage(usage1)]
            IN IF first.choices = <<>> THEN Catch500(q2, NoChoice)
               ELSE LET assistantMsg == first.choices[1]
                        calls == query_toolCalls(assistantMsg)
                    IN IF Len(calls) = 0
                       THEN Respond(q2, 200,
                                    [response |-> assistantMsg.content,
                                     tokens_used |-> q2.totalTokens,
                                     estimated_cost_usd |-> toFixed6(q2.totalCost)])
                       ELSE query_startCall([q2 EXCEPT !.assistantMsg = assistantMsg,
                                                       !.calls = calls, !.i = 1,
                                                       !.toolResponses = <<>>])

\* a loop body that treats an {error} result as an exception
query_afterDispatchThrowOnError(q, result) ==
    LET q1 == [q EXCEPT !.log = Append(@, Ev("dispatch_settled", q.i))]
    IN IF result.kind = "throw" THEN Catch500(q1, result.err)
       ELSE IF "error" \in DOMAIN result.value
       THEN Catch500(q1, Err("Error", result.value.error))
       ELSE LET call == q.calls[q.i]
                q2 == [q1 EXCEPT !.toolResponses =
                          Append(@, [role |-> "tool", tool_call_id |-> call.id,
                                     content |-> JSONStringify(result.value),
                                     name |-> call.function.name]),
                                 !.i = @ + 1]
            IN IF q2.i <= Len(q2.calls) THEN query_startCall(q2)
               ELSE query_issueFinal(q2)

\* lines 156-173: dispatch has settled for calls[i]
query_afterDispatch(q, result) ==
    LET q1 == [q EXCEPT !.log = Append(@, Ev("dispatch_settled", q.i))]
    IN IF result.kind = "throw" THEN Catch500(q1, result.err)
       ELSE LET call == q.calls[q.i]
                q2 == [q1 EXCEPT !.toolResponses =
                          Append(@, [role |-> "tool", tool_call_id |-> call.id,
                                     content |-> JSONStringify(result.value),
                                     name |-> call.function.name]),
                                 !.i = @ + 1]
            IN IF q2.i <= Len(q2.calls) THEN query_startCall(q2)
               ELSE query_issueFinal(q2)

\* a round 2 whose usage is left out of the totals
query_afterFinalRound1Only(q, outcome) ==
    LET q1 == [q EXCEPT !.log = Append(@, Ev("llm_settled", 2))]
    IN IF outcome.kind = "throw" THEN Catch500(q1, outcome.err)
       ELSE LET final == outcome.value
            IN IF final.choices = <<>> THEN Catch500(q1, NoChoice)
               ELSE Respond(q1, 200,
                            [tool_calls |-> [k \in 1..Len(q.calls) |->
                                                [name |-> q.calls[k].function.name]],
                             summary |-> final.choices[1].content,
                             tokens_used |-> q1.totalTokens,
                             estimated_cost_usd |-> toFixed6(q1.totalCost)])

\* lines 175-184: after round 2
query_afterFinal(q, outcome) ==
    LET q1 == [q EXCEPT !.log = Append(@, Ev("llm_settled", 2))]
    IN IF outcome.kind = "throw" THEN Catch500(q1, outcome.err)
       ELSE LET final == outcome.value
                usage2 == Or(final.usage, EmptyObj)
                q2 == [q1 EXCEPT !.totalTokens = @ + UsageField(usage2, "total_tokens"),
                                 !.totalCost = @ + costFromUsage(usage2)]
            IN IF final.choices = <<>> THEN Catch500(q2, NoChoice)
               ELSE Respond(q2, 200,
                            [tool_calls |-> [k \in 1..Len(q.calls) |->
                                                [name |-> q.calls[k].function.name]],
                             summary |-> final.choices[1].content,
                             tokens_used |-> q2.totalTokens,
                             estimated_cost_usd |-> toFixed6(q2.totalCost)])

\* a dispatch that resolves without looking at what its handler did
DispatchResultStale(q, outcome) == q.d.result

\* what the promise of the dispatch in flight settles to
DispatchResult(q, outcome) ==
    IF q.d.invoked THEN dispatchSettle(outcome) ELSE q.d.result

SettleOutcomes(q) ==
    IF q.d.invoked THEN HandlerOutcomes(q.d.handler) ELSE {Return(Undefined)}

PostQuery(r, body) ==
    /\ reqs[r].pc = "idle"
    /\ reqs' = [reqs EXCEPT ![r] = query_entry(@, body)]
    /\ UNCHANGED <<TOOL_REGISTRY, dcall, registryOrder, rcall, fn, sh>>

\* round 1 settles with one of the given completions, or fails
PostQuery_FirstOf(r, completions) ==
    /\ reqs[r].endpoint = "/query" /\ reqs[r].pc = "await_first"
    /\ \E outcome \in ProviderOutcomes(completions) :
          reqs' = [reqs EXCEPT ![r] = query_afterFirst(SawFirst(@, outcome), outcome)]
    /\ UNCHANGED <<TOOL_REGISTRY, dcall, registryOrder, rcall, fn, sh>>

PostQuery_First(r) == PostQuery_FirstOf(r, FirstCompletions)

PostQuery_Dispatch(r) ==
    /\ reqs[r].endpoint = "/query" /\ reqs[r].pc = "await_dispatch"
    /\ \E outcome \in SettleOutcomes(reqs[r]) :
          reqs' = [reqs EXCEPT ![r] = query_afterDispatch(SawTool(@, outcome), DispatchResult(@, outcome))]
    /\ UNCHANGED <<TOOL_REGISTRY, dcall, registryOrder, rcall, fn, sh>>

PostQuery_Final(r) ==
    /\ reqs[r].endpoint = "/query" /\ reqs[r].pc = "await_final"
    /\ \E outcome \in ProviderOutcomes(FinalCompletions) :
          reqs' = [reqs EXCEPT ![r] = query_afterFinal(SawFinal(@, outcome), outcome)]
    /\ UNCHANGED <<TOOL_REGISTRY, dcall, registryOrder, rcall, fn, sh>>

(***************************************************************************)
(* POST /query-gemini: Gemini function calling                             *)
(***************************************************************************)
FunctionCall(name, args) == [t |-> "functionCall", name |-> name, args |-> args]
Part(text, functionCall) == [text |-> text, functionCall |-> functionCall]
Content(role, parts) == [role |-> role, parts |-> parts]

\* the functionCall parts a round-1 candidate can carry
FunctionCallLists ==
    UNION { { [k \in 1..n |-> Part(Undefined, FunctionCall(f[k][1], f[k][2]))] :
                f \in [1..n -> ToolNames \X {Undefined, Obj("args")}] } : n \in 0..MaxCalls }

TextParts == { <<>>, <<Part(Str("some text"), Undefined)>> }

\* a generateContent response: its candidates (each stands for its content)
GeminiResponse(candidates) == [candidates |-> candidates]

GeminiFirst ==
    { GeminiResponse(<<Content("model", tp \o fcs)>>) :
        tp \in TextParts, fcs \in FunctionCallLists }
    \cup { GeminiResponse(<<>>) }

GeminiSecond ==
    { GeminiResponse(<<Content("model", tp \o fcs)>>) :
        tp \in TextParts,
        fcs \in { <<>>, <<Part(Undefined, FunctionCall("get_time", Undefined))>> } }
    \cup { GeminiResponse(<<>>) }

IsTruthy(x) == Truthy(x)
\* parts.map((p) => p.text), parts.map((p) => p.functionCall)
TextsOf(parts) == [k \in 1..Len(parts) |-> parts[k].text]
CallsOf(parts) == [k \in 1..Len(parts) |-> parts[k].functionCall]

\* strs.join("\n") of string values
RECURSIVE Join(_)
Join(strs) ==
    IF Len(strs) = 0 THEN ""
    ELSE IF Len(strs) = 1 THEN strs[1].v
    ELSE strs[1].v \o "\n" \o Join(Tail(strs))

\* parts.map((p) => p.text).filter(Boolean).join("\n")
JoinedText(parts) == Str(Join(SelectSeq(TextsOf(parts), IsTruthy)))

\* lines 194-209
gemini_entry(q, body) ==
    LET query == Prop(Or(body, EmptyObj), "query")
        q0 == [q EXCEPT !.endpoint = "/query-gemini", !.body = body, !.query = query]
    IN IF ~Truthy(query)
       THEN Respond(q0, 400, MissingQuery)
       ELSE [q0 EXCEPT !.pc = "await_first",
                       !.log = Append(@, Ev("llm_request", 1))]

\* lines 225-228: loop head for functionCalls[i], up to the await of dispatch
gemini_startCall(q) ==
    LET fc == q.calls[q.i]
    IN [q EXCEPT !.pc = "await_dispatch",
                 !.d = dispatchStart(TOOL_REGISTRY, fc.name, Or(fc.args, EmptyObj)),
                 !.log = Append(@, Ev("dispatch", q.i))]

\* lines 235-246: the round-2 request
gemini_issueSecond(q) ==
    [q EXCEPT !.pc = "await_final",
              !.round2 = << Content("user", <<Part(q.query, Undefined)>>),
                            q.assistantMsg,
                            Content("function", q.toolResponses) >>,
              !.log = Append(@, Ev("llm_request", 2))]

\* lines 211-228: after round 1
gemini_afterFirst(q, outcome) ==
    LET q1 == [q EXCEPT !.log = Append(@, Ev("llm_settled", 1))]
    IN IF outcome.kind = "throw" THEN Catch500(q1, outcome.err)
       ELSE LET first == outcome.value
                hasCandidate == Len(first.candidates) > 0
                parts == IF hasCandidate THEN first.candidates[1].parts ELSE <<>>
                functionCalls == SelectSeq(CallsOf(parts), IsTruthy)
            IN IF Len(functionCalls) = 0
               THEN Respond(q1, 200, [response |-> Or(JoinedText(parts), Str("(no text)"))])
               ELSE gemini_startCall([q1 EXCEPT !.assistantMsg = first.candidates[1],
                                                !.calls = functionCalls, !.i = 1,
                                                !.toolResponses = <<>>])

\* a loop that stops one call early
gemini_afterDispatchOffByOne(q, result) ==
    LET q1 == [q EXCEPT !.log = Append(@, Ev("dispatch_settled", q.i))]
    IN IF result.kind = "throw" THEN Catch500(q1, result.err)
       ELSE LET q2 == [q1 EXCEPT !.toolResponses =
                          Append(@, [functionResponse |->
                                       [name |-> q.calls[q.i].name,
                                        response |-> result.value]]),
                                 !.i = @ + 1]
            IN IF q2.i < Len(q2.calls) THEN gemini_startCall(q2)
               ELSE gemini_issueSecond(q2)

\* lines 228-246: dispatch has settled for functionCalls[i]
gemini_afterDispatch(q, result) ==
    LET q1 == [q EXCEPT !.log = Append(@, Ev("dispatch_settled", q.i))]
    IN IF result.kind = "throw" THEN Catch500(q1, result.err)
       ELSE LET q2 == [q1 EXCEPT !.toolResponses =
                          Append(@, [functionResponse |->
                                       [name |-> q.calls[q.i].name,
                                        response |-> result.value]]),
                                 !.i = @ + 1]
            IN IF q2.i <= Len(q2.calls) THEN gemini_startCall(q2)
               ELSE gemini_issueSecond(q2)

\* a handler that runs the function calls of the round-2 answer as well
gemini_afterSecondLoop(q, outcome) ==
    LET q1 == [q EXCEPT !.log = Append(@, Ev("llm_settled", 2))]
    IN IF outcome.kind = "throw" THEN Catch500(q1, outcome.err)
       ELSE LET second == outcome.value
                parts == IF Len(second.candidates) > 0
                         THEN second.candidates[1].parts ELSE <<>>
                again == SelectSeq(CallsOf(parts), IsTruthy)
            IN IF Len(again) > 0
               THEN gemini_startCall([q1 EXCEPT !.calls = again, !.i = 1])
               ELSE Respond(q1, 200,
                            [gemini_tool_calls |-> [k \in 1..Len(q.calls) |->
                                                      [name |-> q.calls[k].name]],
                             summary |-> JoinedText(parts)])

\* lines 248-257: after round 2
gemini_afterSecond(q, outcome) ==
    LET q1 == [q EXCEPT !.log = Append(@, Ev("llm_settled", 2))]
    IN IF outcome.kind = "throw" THEN Catch500(q1, outcome.err)
       ELSE LET second == outcome.value
                parts == IF Len(second.candidates) > 0
                         THEN second.candidates[1].parts ELSE <<>>
            IN Respond(q1, 200,
                       [gemini_tool_calls |-> [k \in 1..Len(q.calls) |->
                                                 [name |-> q.calls[k].name]],
                        summary |-> JoinedText(parts)])

PostQueryGemini(r, body) ==
    /\ reqs[r].pc = "idle"
    /\ reqs' = [reqs EXCEPT ![r] = gemini_entry(@, body)]
    /\ UNCHANGED <<TOOL_REGISTRY, dcall, registryOrder, rcall, fn, sh>>

PostQueryGemini_FirstOf(r, responses) ==
    /\ reqs[r].endpoint = "/query-gemini" /\ reqs[r].pc = "await_first"
    /\ \E outcome \in ProviderOutcomes(responses) :
          reqs' = [reqs EXCEPT ![r] = gemini_afterFirst(SawFirst(@, outcome), outcome)]
    /\ UNCHANGED <<TOOL_REGISTRY, dcall, registryOrder, rcall, fn, sh>>

PostQueryGemini_First(r) == PostQueryGemini_FirstOf(r, GeminiFirst)

PostQueryGemini_Dispatch(r) ==
    /\ reqs[r].endpoint = "/query-gemini" /\ reqs[r].pc = "await_dispatch"
    /\ \E outcome \in SettleOutcomes(reqs[r]) :
          reqs' = [reqs EXCEPT ![r] = gemini_afterDispatch(SawTool(@, outcome), DispatchResult(@, outcome))]
    /\ UNCHANGED <<TOOL_REGISTRY, dcall, registryOrder, rcall, fn, sh>>

PostQueryGemini_Second(r) ==
    /\ reqs[r].endpoint = "/query-gemini" /\ reqs[r].pc = "await_final"
    /\ \E outcome \in ProviderOutcomes(GeminiSecond) :
          reqs' = [reqs EXCEPT ![r] = gemini_afterSecond(SawFinal(@, outcome), outcome)]
    /\ UNCHANGED <<TOOL_REGISTRY, dcall, registryOrder, rcall, fn, sh>>

(***************************************************************************)
(* server.js: POST /query of the two-tool server (function_call protocol)  *)
(***************************************************************************)
LegacyCall(name, argString) ==
    [t |-> "function_call", name |-> name, arguments |-> argString]

LegacyMsg(functionCall) ==
    [role |-> "assistant",
     content |-> IF Truthy(functionCall) THEN Null ELSE Str("direct answer"),
     function_call |-> functionCall]

LegacyFirst ==
    { Completion(u, <<LegacyMsg(LegacyCall(n, a))>>) :
        u \in Usages, n \in ToolNames, a \in ArgStrings }
    \cup { Completion(u, <<LegacyMsg(Undefined)>>) : u \in Usages }
    \cup { Completion(Undefined, <<>>) }

LegacySummary ==
    { Completion(u, <<LegacyMsg(fc)>>) :
        u \in Usages, fc \in {Undefined, LegacyCall("get_latest_news", GoodArgs)} }
    \cup { Completion(Undefined, <<>>) }

\* an exception that leaves the handler and is answered by nobody: the
\* request is left open
UncaughtUnanswered(q, err) == [q EXCEPT !.pc = "rejected", !.uncaught = Append(@, err)]

\* the promise of the async handler is rejected: the router that left
\* req.body undefined passes the error on to its final handler, which
\* answers 500 with a page that is not the route's {error} body
Uncaught(q, err) ==
    [q EXCEPT !.pc = "rejected", !.uncaught = Append(@, err),
              !.res = Append(@, [status |-> 500,
                                 body |-> [html |-> "Internal Server Error"]]),
              !.log = Append(@, Ev("respond", 500))]

\* lines 148-151: the catch clause
server_catch(q, err) == Respond(q, 500, [error |-> err.message])

\* lines 41-62
server_entry(q, body) ==
    LET q0 == [q EXCEPT !.endpoint = "server.js/query", !.body = body]
    IN IF body.t \in {"undefined", "null"}
       THEN Uncaught(q0, Err("TypeError",
               "Cannot destructure property 'query' of 'req.body' as it is undefined."))
       ELSE LET query == Prop(body, "query")
                q1 == [q0 EXCEPT !.query = query]
            IN IF ~Truthy(query)
               THEN Respond(q1, 400, MissingQuery)
               ELSE [q1 EXCEPT !.pc = "await_first", !.totalTokens = 0, !.totalCost = 0,
                               !.log = Append(@, Ev("llm_request", 1))]

\* lines 64-100: after round 1, up to the await of the tool
server_afterFirst(q, outcome) ==
    LET q1 == [q EXCEPT !.log = Append(@, Ev("llm_settled", 1))]
    IN IF outcome.kind = "throw" THEN server_catch(q1, outcome.err)
       ELSE LET aiResponse == outcome.value
                usage1 == Or(aiResponse.usage, EmptyObj)
                q2 == [q1 EXCEPT !.totalTokens = @ + UsageField(usage1, "total_tokens"),
                                 !.totalCost = @ + costFromUsage(usage1)]
            IN IF aiResponse.choices = <<>> THEN server_catch(q2, NoChoice)
               ELSE LET message == aiResponse.choices[1]
                    IN IF ~Truthy(message.function_call)
                       THEN Respond(q2, 200,
                                    [response |-> message.content,
                                     tokens_used |-> q2.totalTokens,
                                     estimated_cost_usd |-> toFixed6(q2.totalCost)])
                       ELSE LET name == message.function_call.name
                                parsedArgs == JSONParse(message.function_call.arguments)
                                q3 == [q2 EXCEPT !.assistantMsg = message,
                                                 !.calls = <<message.function_call>>,
                                                 !.i = 1, !.toolResponses = <<>>]
                            IN IF parsedArgs.kind = "throw"
                               THEN server_catch(q3, parsedArgs.err)
                               ELSE IF name \in {"get_latest_news", "get_google_places"}
                               THEN [q3 EXCEPT !.pc = "await_tool",
                                               !.d = [invoked |-> TRUE, handler |-> name,
                                                      handlerArgs |-> parsedArgs.value,
                                                      result |-> Return(Undefined)],
                                               !.log = Append(@, Ev("dispatch", 1))]
                               ELSE server_catch(q3, Err("Error", "Unknown function: " \o name))

\* lines 88-111: the tool has settled; the round-2 request
server_afterTool(q, outcome) ==
    LET q1 == [q EXCEPT !.log = Append(@, Ev("dispatch_settled", 1))]
    IN IF outcome.kind = "throw" THEN server_catch(q1, outcome.err)
       ELSE LET functionMsg == [role |-> "function", name |-> q.d.handler,
                                content |-> JSONStringify(outcome.value)]
            IN [q1 EXCEPT !.pc = "await_final",
                          !.toolResponses = <<functionMsg>>, !.i = 2,
                          !.round2 = <<[role |-> "user", content |-> q.query],
                                       q.assistantMsg, functionMsg>>,
                          !.log = Append(@, Ev("llm_request", 2))]

\* lines 113-138: after round 2
server_afterSummary(q, outcome) ==
    LET q1 == [q EXCEPT !.log = Append(@, Ev("llm_settled", 2))]
    IN IF outcome.kind = "throw" THEN server_catch(q1, outcome.err)
       ELSE LET summaryResponse == outcome.value
                usage2 == Or(summaryResponse.usage, EmptyObj)
                q2 == [q1 EXCEPT !.totalTokens = @ + UsageField(usage2, "total_tokens"),
                                 !.totalCost = @ + costFromUsage(usage2)]
            IN IF summaryResponse.choices = <<>> THEN server_catch(q2, NoChoice)
               ELSE Respond(q2, 200,
                            [tool_used |-> q.d.handler,
                             args |-> q.d.handlerArgs,
                             result |-> q.toolResponses[1].content.of,
                             summary |-> summaryResponse.choices[1].content,
                             tokens_used |-> q2.totalTokens,
                             estimated_cost_usd |-> toFixed6(q2.totalCost)])

ServerPostQuery(r, body) ==
    /\ reqs[r].pc = "idle"
    /\ reqs' = [reqs EXCEPT ![r] = server_entry(@, body)]
    /\ UNCHANGED <<TOOL_REGISTRY, dcall, registryOrder, rcall, fn, sh>>

ServerPostQuery_First(r) ==
    /\ reqs[r].endpoint = "server.js/query" /\ reqs[r].pc = "await_first"
    /\ \E outcome \in ProviderOutcomes(LegacyFirst) :
          reqs' = [reqs EXCEPT ![r] = server_afterFirst(SawFirst(@, outcome), outcome)]
    /\ UNCHANGED <<TOOL_REGISTRY, dcall, registryOrder, rcall, fn, sh>>

ServerPostQuery_Tool(r) ==
    /\ reqs[r].endpoint = "server.js/query" /\ reqs[r].pc = "await_tool"
    /\ \E outcome \in HandlerOutcomes(reqs[r].d.handler) :
          reqs' = [reqs EXCEPT ![r] = server_afterTool(SawTool(@, outcome), outcome)]
    /\ UNCHANGED <<TOOL_REGISTRY, dcall, registryOrder, rcall, fn, sh>>

ServerPostQuery_Summary(r) ==
    /\ reqs[r].endpoint = "server.js/query" /\ reqs[r].pc = "await_final"
    /\ \E outcome \in ProviderOutcomes(LegacySummary) :
          reqs' = [reqs EXCEPT ![r] = server_afterSummary(SawFinal(@, outcome), outcome)]
    /\ UNCHANGED <<TOOL_REGISTRY, dcall, registryOrder, rcall, fn, sh>>

(***************************************************************************)
(* JavaScript numbers, as exact fractions                                  *)
(***************************************************************************)
MaxValue == 40       \* the integers a caller converts are -MaxValue..MaxValue

RECURSIVE GCD(_, _)
GCD(a, b) == IF b = 0 THEN a ELSE GCD(b, a % b)
Abs(n) == IF n < 0 THEN -n ELSE n

\* the number n/d, in lowest terms with a positive denominator
Q(n, d) ==
    LET g == GCD(Abs(n), Abs(d))
        sgn == IF d < 0 THEN -1 ELSE 1
    IN [t |-> "q", num |-> (sgn * n) \div g, den |-> (sgn * d) \div g]
Whole(n) == Q(n, 1)
NaN == Num("NaN")
Bool(b) == [t |-> "bool", v |-> IF b THEN "true" ELSE "false"]
\* a JavaScript array
Array(items) == [t |-> "array", items |-> items]
IsNaN(x) == x.t = "num" /\ x.v = "NaN"

QAdd(a, b) == Q(a.num * b.den + b.num * a.den, a.den * b.den)
QSub(a, b) == Q(a.num * b.den - b.num * a.den, a.den * b.den)
QMul(a, b) == Q(a.num * b.num, a.den * b.den)
QDiv(a, b) == Q(a.num * b.den, a.den * b.num)
QLess(a, b) == a.num * b.den < b.num * a.den

\* StringToNumber on the strings a caller sends: surrounding blanks are
\* trimmed, the empty string is 0, anything that is not a numeral is NaN
StringToNumber(str) ==
    CASE str \in {"", "  "} -> Whole(0)
      [] str = "12" -> Whole(12)
      [] str = " 32 " -> Whole(32)
      [] str = "-40" -> Whole(-40)
      [] str = "2.5" -> Q(5, 2)
      [] OTHER -> NaN

\* Number(value)
Number(value) ==
    CASE value.t = "q" -> value
      [] value.t = "undefined" -> NaN
      [] value.t = "null" -> Whole(0)
      [] value.t = "bool" -> IF value.v = "true" THEN Whole(1) ELSE Whole(0)
      [] value.t = "str" -> StringToNumber(value.v)
      [] OTHER -> NaN

\* String.prototype.toLowerCase on the strings a caller sends as `kind`
toLowerCase(str) ==
    CASE str \in {"C_TO_F", "C_to_F"} -> "c_to_f"
      [] str \in {"F_TO_C", "f_To_c"} -> "f_to_c"
      [] str = "KM_TO_MILES" -> "km_to_miles"
      [] str = "Bogus" -> "bogus"
      [] OTHER -> str

\* ${x} in a template string, for the values that reach one
TemplateString(x) ==
    CASE x.t = "str" -> x.v
      [] x.t = "undefined" -> "undefined"
      [] x.t = "null" -> "null"
      [] x.t = "bool" -> x.v
      [] x.t = "num" -> x.v
      [] x.t = "q" /\ x.num = 0 -> "0"
      [] OTHER -> "[object Object]"

(***************************************************************************)
(* functions.js: convert_units                                             *)
(***************************************************************************)
\* convert_units whose f_to_c multiplies by 9/5 as c_to_f does
convert_unitsSameFactor(args) ==
    LET kind == Prop(args, "kind")
        v == Number(Prop(args, "value"))
        k == Or(kind, Str(""))
    IN IF IsNaN(v) THEN Return([error |-> "value must be a number"])
       ELSE IF k.t # "str"
       THEN Throw(Err("TypeError", "(kind || \"\").toLowerCase is not a function"))
       ELSE CASE toLowerCase(k.v) = "c_to_f" ->
                   Return([input |-> v,
                           output |-> QAdd(QDiv(QMul(v, Whole(9)), Whole(5)), Whole(32)),
                           unit |-> "F"])
              [] toLowerCase(k.v) = "f_to_c" ->
                   Return([input |-> v,
                           output |-> QDiv(QMul(QSub(v, Whole(32)), Whole(9)), Whole(5)),
                           unit |-> "C"])
              [] toLowerCase(k.v) = "km_to_miles" ->
                   Return([input |-> v,
                           output |-> QMul(v, Q(621371, 1000000)),
                           unit |-> "mi"])
              [] OTHER ->
                   Return([error |-> "unknown kind: " \o TemplateString(kind)])

\* convert_units({ kind, value }); the promise it returns settles at once
convert_units(args) ==
    LET kind == Prop(args, "kind")
        v == Number(Prop(args, "value"))
        k == Or(kind, Str(""))
    IN IF IsNaN(v) THEN Return([error |-> "value must be a number"])
       ELSE IF k.t # "str"
       THEN Throw(Err("TypeError", "(kind || \"\").toLowerCase is not a function"))
       ELSE CASE toLowerCase(k.v) = "c_to_f" ->
                   Return([input |-> v,
                           output |-> QAdd(QDiv(QMul(v, Whole(9)), Whole(5)), Whole(32)),
                           unit |-> "F"])
              [] toLowerCase(k.v) = "f_to_c" ->
                   Return([input |-> v,
                           output |-> QDiv(QMul(QSub(v, Whole(32)), Whole(5)), Whole(9)),
                           unit |-> "C"])
              [] toLowerCase(k.v) = "km_to_miles" ->
                   Return([input |-> v,
                           output |-> QMul(v, Q(621371, 1000000)),
                           unit |-> "mi"])
              [] OTHER ->
                   Return([error |-> "unknown kind: " \o TemplateString(kind)])

(***************************************************************************)
(* functions.js: get_google_places                                         *)
(***************************************************************************)
maxWaitMs == 120000
pollIntervalMs == 2000
\* a list of final statuses that leaves out ABORTED
TerminalStatusesNoAborted == {"SUCCEEDED", "FAILED", "TIMED-OUT"}

\* line 75
TerminalStatuses == {"SUCCEEDED", "FAILED", "ABORTED", "TIMED-OUT"}

\* the leading integer of the strings a caller sends as maxResults
parseIntString(str) ==
    CASE str \in {"12", "12px", "12.9"} -> Whole(12)
      [] str = "500" -> Whole(500)
      [] str = "0" -> Whole(0)
      [] str = "-7" -> Whole(-7)
      [] OTHER -> NaN

\* the integer part of a fraction, rounding towards zero
Trunc(x) == IF x.num >= 0 THEN x.num \div x.den ELSE -((-x.num) \div x.den)

\* parseInt(x, 10): the argument is turned into a string and its leading
\* integer is read; a number below 1e21 prints in plain decimal notation
parseInt(x) ==
    CASE x.t = "q" -> Whole(Trunc(x))
      [] x.t = "str" -> parseIntString(x.v)
      [] OTHER -> NaN

MathMax(a, b) == IF QLess(a, b) THEN b ELSE a
MathMin(a, b) == IF QLess(b, a) THEN b ELSE a

\* a parameter default: `maxResults = 50` applies when the field is undefined
DefaultTo(x, dflt) == IF x.t = "undefined" THEN dflt ELSE x

\* the clamp without Math.max(.., 1)
maxCrawledPlacesPerSearchNoFloor(maxResults) ==
    MathMin(Or(parseInt(maxResults), Whole(50)), Whole(200))

\* Math.min(Math.max(parseInt(maxResults, 10) || 50, 1), 200)
maxCrawledPlacesPerSearch(maxResults) ==
    MathMin(MathMax(Or(parseInt(maxResults), Whole(50)), Whole(1)), Whole(200))

\* ${res.status} for the status codes the platform answers with
CodeString(code) ==
    CASE code = 200 -> "200" [] code = 401 -> "401" [] code = 500 -> "500"
      [] OTHER -> "000"

\* what a fetch of the platform can give: a rejection, a non-2xx response,
\* or a 2xx response with a JSON body
Response(ok, code, text, json) == [ok |-> ok, status |-> code, text |-> text, json |-> json]
NetworkFailure == Throw(Err("TypeError", "fetch failed"))
FetchLatencies == {0, 1000}     \* ms a request to the platform takes

StartResponses ==
    { NetworkFailure,
      Return(Response(FALSE, 401, Str("unauthorized"), Undefined)),
      Return(Response(TRUE, 200, Str(""), [data |-> [id |-> "run1"]])),
      Return(Response(TRUE, 200, Str(""), [data |-> [id |-> ""]])),
      Return(Response(TRUE, 200, Str(""), EmptyObj)) }

\* the statuses the platform reports for a run
RunStatuses == {"RUNNING", "SUCCEEDED", "FAILED", "ABORTED", "TIMED-OUT"}
RunRecords ==
    { [status |-> st, defaultDatasetId |-> "ds1"] : st \in RunStatuses }
    \cup { [status |-> "SUCCEEDED"], [status |-> ""], [startedAt |-> "t0"] }

PollResponses ==
    { NetworkFailure,
      Return(Response(FALSE, 500, Str("server error"), Undefined)),
      Return(Response(TRUE, 200, Str(""), EmptyObj)) }
    \cup { Return(Response(TRUE, 200, Str(""), [data |-> run])) : run \in RunRecords }

RawPlaces ==
    { [title |-> Str("Cafe Uno"), rating |-> Str("4.5"), url |-> Str("https://uno.example")],
      [name |-> Str("Bar Due"), coords |-> [lat |-> Str("1.0"), lng |-> Str("2.0")]] }

ItemsResponses ==
    { NetworkFailure,
      Return(Response(FALSE, 500, Str("server error"), Undefined)),
      Return(Response(TRUE, 200, Str(""), EmptyObj)),
      Return(Response(TRUE, 200, Str(""), [array |-> <<>>])) }
    \cup { Return(Response(TRUE, 200, Str(""), [array |-> <<p>>])) : p \in RawPlaces }

\* one item of the dataset, normalised
MapPlace(p) ==
    [name |-> Or(Or(Prop(p, "title"), Prop(p, "name")), Null),
     rating |-> Or(Or(Prop(p, "rating"), Prop(p, "userRating")), Null),
     reviewsCount |-> Or(Or(Prop(p, "reviewsCount"), Prop(p, "reviewCount")), Null),
     address |-> Or(Or(Prop(p, "address"), Prop(p, "formattedAddress")), Null),
     phone |-> Or(Or(Prop(p, "phone"), Prop(p, "phoneNumber")), Null),
     website |-> Or(Or(Prop(p, "website"), Prop(p, "url")), Null),
     categories |-> Or(Or(Prop(p, "category"), Prop(p, "types")), Null),
     coordinates |-> IF "location" \in DOMAIN p /\ Truthy(p.location)
                     THEN p.location
                     ELSE IF "coords" \in DOMAIN p
                          THEN [lat |-> p.coords.lat, lng |-> p.coords.lng]
                          ELSE Null,
     sourceUrl |-> Or(Or(Prop(p, "googleMapsUrl"), Prop(p, "url")), Null),
     raw |-> p]

\* no call of a function of functions.js has been made
IdleFn ==
    [pc |-> "idle", f |-> "", args |-> EmptyObj, result |-> Return(Undefined),
     origin |-> Undefined, chained |-> FALSE,
     sent |-> Undefined, now |-> 0, startTime |-> 0, issuedAt |-> 0,
     lastStatus |-> "", onlyRunning |-> TRUE, datasetFetches |-> 0,
     \* what the call was given, which requests it has sent, what came back
     token |-> Undefined, requests |-> {}, startOutcome |-> Return(Undefined),
     lastDatasetId |-> "",
     older |-> FALSE, newsFetches |-> 0, newsData |-> Undefined]

\* the call is over: the promise the function returned is settled
Settled(c, result) == [c EXCEPT !.pc = "done", !.result = result]
Fail(c, message) == Settled(c, Throw(Err("Error", message)))

\* a call that goes on to the start request without a credential
places_entryNoTokenCheck(args, token) ==
    LET c == [IdleFn EXCEPT !.f = "get_google_places", !.args = args, !.token = token]
    IN [c EXCEPT
          !.pc = "starting",
          !.requests = @ \cup {"start"},
          !.sent = maxCrawledPlacesPerSearch(
                       DefaultTo(Prop(args, "maxResults"), Whole(50)))]

\* get_google_places(args) up to `await fetch(startRunUrl, ...)`
places_entry(args, token) ==
    LET c == [IdleFn EXCEPT !.f = "get_google_places", !.args = args, !.token = token]
    IN IF ~Truthy(token)
       THEN Fail(c, "APIFY_TOKEN is not set in environment.")
       ELSE [c EXCEPT
               !.pc = "starting",
               !.requests = @ \cup {"start"},
               !.sent = maxCrawledPlacesPerSearch(
                            DefaultTo(Prop(args, "maxResults"), Whole(50)))]

\* the start request settled after `latency` ms: lines 56 to 69
places_afterStart(c, outcome, latency) ==
    LET t == c.now + latency
        d == [c EXCEPT !.now = t, !.startOutcome = outcome]
    IN IF outcome.kind = "throw" THEN Settled(d, outcome)
       ELSE IF ~outcome.value.ok
       THEN Fail(d, "Failed to start Apify run: " \o CodeString(outcome.value.status)
                       \o " " \o outcome.value.text.v)
       ELSE IF ~("data" \in DOMAIN outcome.value.json
                 /\ "id" \in DOMAIN outcome.value.json.data
                 /\ outcome.value.json.data.id # "")
       THEN Fail(d, "Apify run did not return a run ID.")
       ELSE [d EXCEPT !.pc = "polling", !.startTime = t, !.issuedAt = t,
                      !.requests = @ \cup {"status"}]

\* the loop that leaves with `break` when the budget is used up, not `throw`
places_afterPollBreakOnBudget(c, outcome, latency) ==
    LET t == c.now + latency
        json == outcome.value.json
        run == json.data
        d == [c EXCEPT !.now = t,
                       !.lastDatasetId =
                           IF outcome.kind = "return" /\ outcome.value.ok
                              /\ "data" \in DOMAIN json
                              /\ "defaultDatasetId" \in DOMAIN run
                           THEN run.defaultDatasetId ELSE ""]
    IN IF outcome.kind = "throw"
       THEN Settled([d EXCEPT !.onlyRunning = FALSE], outcome)
       ELSE IF ~outcome.value.ok
       THEN Fail([d EXCEPT !.onlyRunning = FALSE],
                 "Failed to check Apify run: " \o CodeString(outcome.value.status)
                     \o " " \o outcome.value.text.v)
       ELSE IF ~("data" \in DOMAIN json /\ "status" \in DOMAIN run /\ run.status # "")
       THEN Fail([d EXCEPT !.onlyRunning = FALSE], "Apify run status missing.")
       ELSE IF run.status \in TerminalStatuses \/ t - c.startTime > maxWaitMs
       THEN IF run.status # "SUCCEEDED"
            THEN Fail([d EXCEPT !.lastStatus = run.status,
                                !.onlyRunning = @ /\ run.status \notin TerminalStatuses],
                      "Apify run ended with status: " \o run.status)
            ELSE IF "defaultDatasetId" \notin DOMAIN run \/ run.defaultDatasetId = ""
            THEN Fail([d EXCEPT !.lastStatus = run.status, !.onlyRunning = FALSE],
                      "No datasetId on Apify run result.")
            ELSE [d EXCEPT !.lastStatus = run.status, !.onlyRunning = FALSE,
                           !.pc = "items", !.datasetFetches = @ + 1,
                           !.requests = @ \cup {"dataset"}]
       ELSE [d EXCEPT !.lastStatus = run.status, !.pc = "sleeping"]

\* a status check settled after `latency` ms: lines 70 to 85, up to the next await
places_afterPoll(c, outcome, latency) ==
    LET t == c.now + latency
        json == outcome.value.json
        run == json.data
        d == [c EXCEPT !.now = t,
                       !.lastDatasetId =
                           IF outcome.kind = "return" /\ outcome.value.ok
                              /\ "data" \in DOMAIN json
                              /\ "defaultDatasetId" \in DOMAIN run
                           THEN run.defaultDatasetId ELSE ""]
    IN IF outcome.kind = "throw"
       THEN Settled([d EXCEPT !.onlyRunning = FALSE], outcome)
       ELSE IF ~outcome.value.ok
       THEN Fail([d EXCEPT !.onlyRunning = FALSE],
                 "Failed to check Apify run: " \o CodeString(outcome.value.status)
                     \o " " \o outcome.value.text.v)
       ELSE IF ~("data" \in DOMAIN json /\ "status" \in DOMAIN run /\ run.status # "")
       THEN Fail([d EXCEPT !.onlyRunning = FALSE], "Apify run status missing.")
       ELSE IF run.status \in TerminalStatuses
       THEN IF run.status # "SUCCEEDED"
            THEN Fail([d EXCEPT !.lastStatus = run.status, !.onlyRunning = FALSE],
                      "Apify run ended with status: " \o run.status)
            ELSE IF "defaultDatasetId" \notin DOMAIN run \/ run.defaultDatasetId = ""
            THEN Fail([d EXCEPT !.lastStatus = run.status, !.onlyRunning = FALSE],
                      "No datasetId on Apify run result.")
            ELSE [d EXCEPT !.lastStatus = run.status, !.onlyRunning = FALSE,
                           !.pc = "items", !.datasetFetches = @ + 1,
                           !.requests = @ \cup {"dataset"}]
       ELSE IF t - c.startTime > maxWaitMs
       THEN Fail([d EXCEPT !.lastStatus = run.status], "Apify run timed out.")
       ELSE [d EXCEPT !.lastStatus = run.status, !.pc = "sleeping"]

\* the timer of line 77 fired: the loop issues the next status check
places_afterSleep(c) ==
    [c EXCEPT !.pc = "polling", !.now = c.now + pollIntervalMs,
              !.issuedAt = c.now + pollIntervalMs,
              !.requests = @ \cup {"status"}]

\* a dataset request that is sent again when it fails
places_afterItemsRetry(c, outcome, latency) ==
    LET d == [c EXCEPT !.now = c.now + latency]
        json == outcome.value.json
    IN IF outcome.kind = "throw" \/ ~outcome.value.ok
       THEN [d EXCEPT !.datasetFetches = @ + 1]
       ELSE Settled(d, Return(Array(
                IF "array" \in DOMAIN json
                THEN [k \in 1..Len(json.array) |-> MapPlace(json.array[k])]
                ELSE <<>>)))

\* the dataset request settled: lines 86 to 103
places_afterItems(c, outcome, latency) ==
    LET d == [c EXCEPT !.now = c.now + latency]
        json == outcome.value.json
    IN IF outcome.kind = "throw" THEN Settled(d, outcome)
       ELSE IF ~outcome.value.ok
       THEN Fail(d, "Failed to fetch Apify dataset items: "
                       \o CodeString(outcome.value.status) \o " " \o outcome.value.text.v)
       ELSE Settled(d, Return(Array(
                IF "array" \in DOMAIN json
                THEN [k \in 1..Len(json.array) |-> MapPlace(json.array[k])]
                ELSE <<>>)))

(***************************************************************************)
(* functions.js and its older copy: get_latest_news                        *)
(***************************************************************************)
MaxArticles == 5     \* most articles one response of the news API carries
pageSize == 5        \* the pageSize the request asks the news API for

\* the news API sends no more articles than the request's pageSize
ArticlesLimit == IF MaxArticles < pageSize THEN MaxArticles ELSE pageSize

Articles ==
    { [title |-> Str("Headline"), source |-> [name |-> Str("BBC")],
       url |-> Str("https://news.example/1"), publishedAt |-> Str("2025-01-01T00:00:00Z")],
      [title |-> Str("Headline"), source |-> Null,
       url |-> Str("https://news.example/2"), publishedAt |-> Str("2025-01-02T00:00:00Z")],
      [title |-> Str("Headline"),
       url |-> Str("https://news.example/3"), publishedAt |-> Str("2025-01-03T00:00:00Z")] }

RECURSIVE ListsUpTo(_, _)
ListsUpTo(elems, n) ==
    IF n = 0 THEN {<<>>}
    ELSE ListsUpTo(elems, n - 1)
         \cup { Append(l, e) : l \in { m \in ListsUpTo(elems, n - 1) : Len(m) = n - 1 },
                               e \in elems }

\* the JSON bodies the news API answers with
NewsBodies ==
    { [status |-> "error", code |-> "apiKeyInvalid", message |-> "Your API key is invalid."],
      [status |-> "error", code |-> "rateLimited", articles |-> Null] }
    \cup { [status |-> "ok", articles |-> Array(l)] : l \in ListsUpTo(Articles, ArticlesLimit) }

\* what `await fetch(url)` followed by `await response.json()` can give:
\* a rejected fetch, a body that is not JSON, or the parsed body
NewsOutcomesOf ==
    { NetworkFailure,
      Throw(Err("SyntaxError", "Unexpected token < in JSON at position 0")) }
    \cup { Return(b) : b \in NewsBodies }

\* a.source?.name, and a.source.name of the older copy
SourceName(a, older) ==
    IF "source" \in DOMAIN a /\ a.source # Null
    THEN Return(Prop(a.source, "name"))
    ELSE IF older
         THEN Throw(Err("TypeError", "Cannot read properties of undefined (reading 'name')"))
         ELSE Return(Undefined)

\* get_latest_news that answers with the articles it has, however the body looks
news_afterFetchNoCheck(c, outcome) ==
    IF outcome.kind = "throw" THEN Settled(c, outcome)
    ELSE LET data == outcome.value
             d == [c EXCEPT !.newsData = data]
             list == IF "articles" \in DOMAIN data /\ data.articles.t = "array"
                     THEN data.articles.items ELSE <<>>
         IN IF \E k \in 1..Len(list) : SourceName(list[k], c.older).kind = "throw"
            THEN Settled(d, SourceName(
                     list[CHOOSE k \in 1..Len(list) :
                              /\ SourceName(list[k], c.older).kind = "throw"
                              /\ \A j \in 1..(k - 1) :
                                    SourceName(list[j], c.older).kind = "return"],
                     c.older))
            ELSE Settled(d, Return(Array(
                     [k \in 1..Len(list) |->
                         [title |-> Prop(list[k], "title"),
                          source |-> SourceName(list[k], c.older).value,
                          url |-> Prop(list[k], "url"),
                          publishedAt |-> Prop(list[k], "publishedAt")]])))

\* the request settled and its body was read: lines 12 to 19
news_afterFetch(c, outcome) ==
    IF outcome.kind = "throw" THEN Settled(c, outcome)
    ELSE LET data == outcome.value
             d == [c EXCEPT !.newsData = data]
             list == data.articles.items
         IN IF ~Truthy(Prop(data, "articles"))
            THEN Settled(d, Return([error |-> "No articles found or invalid response."]))
            ELSE IF \E k \in 1..Len(list) : SourceName(list[k], c.older).kind = "throw"
            THEN Settled(d, SourceName(
                     list[CHOOSE k \in 1..Len(list) :
                              /\ SourceName(list[k], c.older).kind = "throw"
                              /\ \A j \in 1..(k - 1) :
                                    SourceName(list[j], c.older).kind = "return"],
                     c.older))
            ELSE Settled(d, Return(Array(
                     [k \in 1..Len(list) |->
                         [title |-> Prop(list[k], "title"),
                          source |-> SourceName(list[k], c.older).value,
                          url |-> Prop(list[k], "url"),
                          publishedAt |-> Prop(list[k], "publishedAt")]])))

(***************************************************************************)
(* A caller of the functions of functions.js                               *)
(***************************************************************************)
ConvertKinds ==
    { Str(k) : k \in {"c_to_f", "C_TO_F", "f_to_c", "F_TO_C", "km_to_miles",
                      "KM_TO_MILES", "bogus", "Bogus", ""} }
    \cup {Undefined, Null, Whole(0), Whole(5), Bool(TRUE), Bool(FALSE), EmptyObj}
ConvertValues ==
    { Whole(n) : n \in -MaxValue..MaxValue }
    \cup {Whole(100), Q(5, 2), Q(-1, 3)}
    \cup { Str(v) : v \in {"", "12", " 32 ", "2.5", "not-a-number"} }
    \cup {Undefined, Null, NaN, Bool(TRUE), EmptyObj}
ConvertArgs ==
    { [kind |-> k, value |-> v] : k \in ConvertKinds, v \in ConvertValues }
    \cup { [value |-> v] : v \in ConvertValues }
    \cup { [kind |-> k] : k \in ConvertKinds }

MaxResultsValues ==
    { Whole(n) : n \in {-2147483647, -1, 0, 1, 2, 199, 200, 201, 500, 2147483647} }
    \cup {Q(7, 2), Q(1, 2)}
    \cup { Str(v) : v \in {"12px", "0", "-7", "abc"} }
    \cup {Undefined, Null, Bool(TRUE)}
PlacesArgs ==
    { [city |-> Str("Rome"), query |-> Str("pizza")] }
    \cup { [city |-> Str("Rome"), query |-> Str("pizza"), maxResults |-> m] :
              m \in MaxResultsValues }
Tokens == {Undefined, Str(""), Str("apify_token")}
NewsArgs == { [topic |-> Str("ai")], [topic |-> Str("ai"), language |-> Str("de")] }

\* the caller makes one call and, for a conversion, one more with its result
FnFree == fn.pc = "idle"

\* convert_units(args) is called; it has no await, so it settles in the call
ConvertUnits(args) ==
    /\ FnFree
    /\ fn' = Settled([IdleFn EXCEPT !.f = "convert_units", !.args = args],
                     convert_units(args))
    /\ UNCHANGED <<TOOL_REGISTRY, registryOrder, rcall, dcall, reqs, sh>>

\* the caller feeds a temperature it got back into the opposite conversion
ConvertBack ==
    /\ fn.pc = "done" /\ fn.f = "convert_units" /\ ~fn.chained
    /\ fn.result.kind = "return"
    /\ "unit" \in DOMAIN fn.result.value
    /\ fn.result.value.unit \in {"F", "C"}
    /\ LET args == [kind |-> Str(IF fn.result.value.unit = "F" THEN "f_to_c" ELSE "c_to_f"),
                    value |-> fn.result.value.output]
       IN fn' = Settled([IdleFn EXCEPT !.f = "convert_units", !.args = args,
                                       !.origin = fn.result.value.input,
                                       !.chained = TRUE],
                        convert_units(args))
    /\ UNCHANGED <<TOOL_REGISTRY, registryOrder, rcall, dcall, reqs, sh>>

\* get_google_places(args) is called with the environment holding `token`
GetGooglePlaces(args, token) ==
    /\ FnFree
    /\ fn' = places_entry(args, token)
    /\ UNCHANGED <<TOOL_REGISTRY, registryOrder, rcall, dcall, reqs, sh>>

PlacesStartSettles ==
    /\ fn.f = "get_google_places" /\ fn.pc = "starting"
    /\ \E outcome \in StartResponses, latency \in FetchLatencies :
          fn' = places_afterStart(fn, outcome, latency)
    /\ UNCHANGED <<TOOL_REGISTRY, registryOrder, rcall, dcall, reqs, sh>>

PlacesPollSettles ==
    /\ fn.f = "get_google_places" /\ fn.pc = "polling"
    /\ \E outcome \in PollResponses, latency \in FetchLatencies :
          fn' = places_afterPoll(fn, outcome, latency)
    /\ UNCHANGED <<TOOL_REGISTRY, registryOrder, rcall, dcall, reqs, sh>>

PlacesTimerFires ==
    /\ fn.f = "get_google_places" /\ fn.pc = "sleeping"
    /\ fn' = places_afterSleep(fn)
    /\ UNCHANGED <<TOOL_REGISTRY, registryOrder, rcall, dcall, reqs, sh>>

PlacesItemsSettle ==
    /\ fn.f = "get_google_places" /\ fn.pc = "items"
    /\ \E outcome \in ItemsResponses, latency \in FetchLatencies :
          fn' = places_afterItems(fn, outcome, latency)
    /\ UNCHANGED <<TOOL_REGISTRY, registryOrder, rcall, dcall, reqs, sh>>

\* get_latest_news(args) is called, in functions.js or in its older copy;
\* it runs to `await fetch(url)`
GetLatestNews(args, older) ==
    /\ FnFree
    /\ fn' = [IdleFn EXCEPT !.f = "get_latest_news", !.args = args, !.older = older,
                            !.pc = "fetching", !.newsFetches = 1]
    /\ UNCHANGED <<TOOL_REGISTRY, registryOrder, rcall, dcall, reqs, sh>>

NewsFetchSettles ==
    /\ fn.f = "get_latest_news" /\ fn.pc = "fetching"
    /\ \E outcome \in NewsOutcomesOf : fn' = news_afterFetch(fn, outcome)
    /\ UNCHANGED <<TOOL_REGISTRY, registryOrder, rcall, dcall, reqs, sh>>

(***************************************************************************)
(* setup-secrets.sh: the secret store and the script run against it        *)
(***************************************************************************)
MaxRuns == 2

\* line 55
SECRETS == <<"OPENAI_API_KEY", "GEMINI_API_KEY", "APIFY_TOKEN", "NEWS_API_KEY", "MONGO_URI">>
SecretNames == {SECRETS[k] : k \in DOMAIN SECRETS}

\* line 12: the project id left as shipped, or set by the operator
PlaceholderProject == "your-gcp-project-id"
ProjectIds == {PlaceholderProject, "my-project"}

\* the secret store of the project: per name no secret, the value someone
\* stored earlier, or the value pasted into this script
Stores == [SecretNames -> {"absent", "stored earlier"}]
NoSecrets == [s \in SecretNames |-> "absent"]

IdleScript ==
    [pc |-> "idle", run |-> 0, i |-> 0, status |-> 0,
     store |-> NoSecrets, initial |-> NoSecrets, atStart |-> NoSecrets,
     log |-> <<>>]

Cmd(run, cmd, secret, existed, status) ==
    [run |-> run, cmd |-> cmd, secret |-> secret, existed |-> existed, status |-> status]

\* set -e: a command that fails ends the script with its status
Abort(c) == [c EXCEPT !.pc = "exit", !.status = 1]

\* a describe that finds no secret whatever the store holds
secretsDescribeNotFound(store, secret) == 1

\* line 62: exit status of `gcloud secrets describe`
secretsDescribe(store, secret) == IF store[secret] # "absent" THEN 0 ELSE 1

\* lines 65-68: `gcloud secrets create --data-file=-`; the store refuses a
\* name it already holds
secretsCreate(store, secret, ok) ==
    IF store[secret] # "absent" \/ ~ok
    THEN [status |-> 1, store |-> store]
    ELSE [status |-> 0, store |-> [store EXCEPT ![secret] = "pasted"]]

\* lines 78-82: `gcloud secrets add-iam-policy-binding`
addIamPolicyBinding(store, secret, ok) ==
    IF store[secret] = "absent" \/ ~ok THEN 1 ELSE 0

\* lines 9-32: start of a run, up to the project check
script_start(c, projectId) ==
    LET c1 == [c EXCEPT !.run = @ + 1, !.i = 0, !.status = 0, !.atStart = c.store]
    IN IF projectId = PlaceholderProject
       THEN [c1 EXCEPT !.pc = "exit", !.status = 1]
       ELSE [c1 EXCEPT !.pc = "enable"]

\* lines 57-71: the next turn of the first loop, or on to the second loop
script_nextSecret(c) ==
    IF c.i < Len(SECRETS) THEN [c EXCEPT !.pc = "describe", !.i = @ + 1]
    ELSE [c EXCEPT !.pc = "grant", !.i = 1]

\* line 62 and its branches
script_afterDescribe(c) ==
    LET secret == SECRETS[c.i]
        status == secretsDescribe(c.store, secret)
        c1 == [c EXCEPT !.log = Append(@, Cmd(c.run, "describe", secret,
                                               c.store[secret] # "absent", status))]
    IN IF status = 0 THEN script_nextSecret(c1)
       ELSE [c1 EXCEPT !.pc = "create"]

\* lines 65-70
script_afterCreate(c, ok) ==
    LET secret == SECRETS[c.i]
        r == secretsCreate(c.store, secret, ok)
        c1 == [c EXCEPT !.store = r.store,
                        !.log = Append(@, Cmd(c.run, "create", secret,
                                              c.store[secret] # "absent", r.status))]
    IN IF r.status # 0 THEN Abort(c1) ELSE script_nextSecret(c1)

\* lines 77-84, then the closing messages
script_afterGrant(c, ok) ==
    LET secret == SECRETS[c.i]
        status == addIamPolicyBinding(c.store, secret, ok)
        c1 == [c EXCEPT !.log = Append(@, Cmd(c.run, "grant", secret,
                                              c.store[secret] # "absent", status))]
    IN IF status # 0 THEN Abort(c1)
       ELSE IF c.i < Len(SECRETS) THEN [c1 EXCEPT !.i = @ + 1]
       ELSE [c1 EXCEPT !.pc = "exit", !.status = 0]

RunScript(projectId) ==
    /\ sh.pc \in {"idle", "exit"}
    /\ sh.run < MaxRuns
    /\ sh' = script_start(sh, projectId)
    /\ UNCHANGED <<TOOL_REGISTRY, dcall, reqs, registryOrder, rcall, fn>>

\* line 38
EnableApi ==
    /\ sh.pc = "enable"
    /\ \E ok \in BOOLEAN : sh' = IF ok THEN [sh EXCEPT !.pc = "service"] ELSE Abort(sh)
    /\ UNCHANGED <<TOOL_REGISTRY, dcall, reqs, registryOrder, rcall, fn>>

\* lines 43-55
DescribeService ==
    /\ sh.pc = "service"
    /\ \E ok \in BOOLEAN : sh' = IF ok THEN script_nextSecret(sh) ELSE Abort(sh)
    /\ UNCHANGED <<TOOL_REGISTRY, dcall, reqs, registryOrder, rcall, fn>>

SecretsDescribe ==
    /\ sh.pc = "describe"
    /\ sh' = script_afterDescribe(sh)
    /\ UNCHANGED <<TOOL_REGISTRY, dcall, reqs, registryOrder, rcall, fn>>

SecretsCreate ==
    /\ sh.pc = "create"
    /\ \E ok \in BOOLEAN : sh' = script_afterCreate(sh, ok)
    /\ UNCHANGED <<TOOL_REGISTRY, dcall, reqs, registryOrder, rcall, fn>>

SecretsAddIamPolicyBinding ==
    /\ sh.pc = "grant"
    /\ \E ok \in BOOLEAN : sh' = script_afterGrant(sh, ok)
    /\ UNCHANGED <<TOOL_REGISTRY, dcall, reqs, registryOrder, rcall, fn>>

(***************************************************************************)
(* Specifications                                                          *)
(***************************************************************************)
RequestIds == {"req1"}

Init ==
    /\ TOOL_REGISTRY = BootRegistry
    /\ dcall = IdleCall
    /\ reqs = [r \in RequestIds |-> IdleFrame]
    /\ registryOrder = <<"get_latest_news", "get_google_places", "convert_units", "get_time">>
    /\ rcall = IdleRegistryCall
    /\ fn = IdleFn
    /\ sh = IdleScript

\* the HTTP server
Next ==
    \/ \E r \in DOMAIN reqs, body \in Bodies : PostQuery(r, body)
    \/ \E r \in DOMAIN reqs : PostQuery_First(r)
    \/ \E r \in DOMAIN reqs : PostQuery_Dispatch(r)
    \/ \E r \in DOMAIN reqs : PostQuery_Final(r)
    \/ \E r \in DOMAIN reqs, body \in Bodies : PostQueryGemini(r, body)
    \/ \E r \in DOMAIN reqs : PostQueryGemini_First(r)
    \/ \E r \in DOMAIN reqs : PostQueryGemini_Dispatch(r)
    \/ \E r \in DOMAIN reqs : PostQueryGemini_Second(r)
    \/ \E r \in DOMAIN reqs, body \in Bodies : ServerPostQuery(r, body)
    \/ \E r \in DOMAIN reqs : ServerPostQuery_First(r)
    \/ \E r \in DOMAIN reqs : ServerPostQuery_Tool(r)
    \/ \E r \in DOMAIN reqs : ServerPostQuery_Summary(r)

Spec == Init /\ [][Next]_vars

\* the registry-based endpoints, posted bodies whose `query` is of any type
NextShapes ==
    \/ \E r \in DOMAIN reqs, body \in ShapedBodies : PostQuery(r, body)
    \/ \E r \in DOMAIN reqs : PostQuery_First(r)
    \/ \E r \in DOMAIN reqs : PostQuery_Dispatch(r)
    \/ \E r \in DOMAIN reqs : PostQuery_Final(r)
    \/ \E r \in DOMAIN reqs, body \in ShapedBodies : PostQueryGemini(r, body)
    \/ \E r \in DOMAIN reqs : PostQueryGemini_First(r)
    \/ \E r \in DOMAIN reqs : PostQueryGemini_Dispatch(r)
    \/ \E r \in DOMAIN reqs : PostQueryGemini_Second(r)

SpecShapes == Init /\ [][NextShapes]_vars

\* two requests in flight at once on the registry-based endpoints; round 1
\* names at most one tool call in this specification
ConcurrentIds == {"req1", "req2"}

InitConcurrent ==
    /\ TOOL_REGISTRY = BootRegistry
    /\ dcall = IdleCall
    /\ reqs = [r \in ConcurrentIds |-> IdleFrame]
    /\ registryOrder = <<"get_latest_news", "get_google_places", "convert_units", "get_time">>
    /\ rcall = IdleRegistryCall
    /\ fn = IdleFn
    /\ sh = IdleScript

\* the round-1 answers that name at most one tool call
AtMostOneCall(calls) == Len(calls) <= 1
FirstCompletionsOneCall ==
    { c \in FirstCompletions :
        c.choices # <<>> => AtMostOneCall(query_toolCalls(c.choices[1])) }
GeminiFirstOneCall ==
    { g \in GeminiFirst :
        g.candidates # <<>> =>
           AtMostOneCall(SelectSeq(CallsOf(g.candidates[1].parts), IsTruthy)) }

NextConcurrent ==
    \/ \E r \in DOMAIN reqs, body \in Bodies : PostQuery(r, body)
    \/ \E r \in DOMAIN reqs : PostQuery_FirstOf(r, FirstCompletionsOneCall)
    \/ \E r \in DOMAIN reqs : PostQuery_Dispatch(r)
    \/ \E r \in DOMAIN reqs : PostQuery_Final(r)
    \/ \E r \in DOMAIN reqs, body \in Bodies : PostQueryGemini(r, body)
    \/ \E r \in DOMAIN reqs : PostQueryGemini_FirstOf(r, GeminiFirstOneCall)
    \/ \E r \in DOMAIN reqs : PostQueryGemini_Dispatch(r)
    \/ \E r \in DOMAIN reqs : PostQueryGemini_Second(r)

SpecConcurrent == InitConcurrent /\ [][NextConcurrent]_vars

\* the operator running setup-secrets.sh against a project's secret store
InitSecrets ==
    /\ TOOL_REGISTRY = BootRegistry
    /\ dcall = IdleCall
    /\ reqs = [r \in RequestIds |-> IdleFrame]
    /\ registryOrder = <<"get_latest_news", "get_google_places", "convert_units", "get_time">>
    /\ rcall = IdleRegistryCall
    /\ fn = IdleFn
    /\ \E st \in Stores : sh = [IdleScript EXCEPT !.store = st, !.initial = st]

NextSecrets ==
    \/ \E projectId \in ProjectIds : RunScript(projectId)
    \/ EnableApi
    \/ DescribeService
    \/ SecretsDescribe
    \/ SecretsCreate
    \/ SecretsAddIamPolicyBinding

SpecSecrets == InitSecrets /\ [][NextSecrets]_vars

\* every provider call and tool call in flight settles, and the event loop
\* then runs the handler's continuation
\* Round 1 names get_google_places (a handler that returns or raises) and
\* a tool the registry does not hold.
FairNames == {"get_google_places", UnknownName}
FirstCompletionsFair ==
    { c \in FirstCompletions :
        c.choices # <<>> =>
           \A k \in DOMAIN c.choices[1].tool_calls :
              c.choices[1].tool_calls[k].function.name \in FairNames }
GeminiFirstFair ==
    { g \in GeminiFirst :
        g.candidates # <<>> =>
           \A k \in DOMAIN g.candidates[1].parts :
              g.candidates[1].parts[k].functionCall.t = "functionCall" =>
                 g.candidates[1].parts[k].functionCall.name \in FairNames }

NextFair ==
    \/ \E r \in DOMAIN reqs, body \in Bodies : PostQuery(r, body)
    \/ \E r \in DOMAIN reqs : PostQuery_FirstOf(r, FirstCompletionsFair)
    \/ \E r \in DOMAIN reqs : PostQuery_Dispatch(r)
    \/ \E r \in DOMAIN reqs : PostQuery_Final(r)
    \/ \E r \in DOMAIN reqs, body \in Bodies : PostQueryGemini(r, body)
    \/ \E r \in DOMAIN reqs : PostQueryGemini_FirstOf(r, GeminiFirstFair)
    \/ \E r \in DOMAIN reqs : PostQueryGemini_Dispatch(r)
    \/ \E r \in DOMAIN reqs : PostQueryGemini_Second(r)
    \/ \E r \in DOMAIN reqs, body \in Bodies : ServerPostQuery(r, body)
    \/ \E r \in DOMAIN reqs : ServerPostQuery_First(r)
    \/ \E r \in DOMAIN reqs : ServerPostQuery_Tool(r)
    \/ \E r \in DOMAIN reqs : ServerPostQuery_Summary(r)

SpecFair == Init /\ [][NextFair]_vars /\ WF_vars(NextFair)

\* callers of the registry module
NextTools ==
    \/ \E toolName \in ToolNames, args \in DirectArgs : DispatchCall(toolName, args)
    \/ DispatchSettle

SpecTools == Init /\ [][NextTools]_vars

\* a module that starts from the empty registry, fills it and uses it
InitRegistry ==
    /\ TOOL_REGISTRY = EmptyRegistry
    /\ registryOrder = <<>>
    /\ dcall = [IdleCall EXCEPT !.registryBefore = EmptyRegistry]
    /\ reqs = [r \in RequestIds |-> IdleFrame]
    /\ rcall = IdleRegistryCall
    /\ fn = IdleFn
    /\ sh = IdleScript

NextRegistry ==
    \/ \E spec \in RegSpecs, handler \in RegHandlers : RegisterTool(spec, handler)
    \/ ListToolsForOpenAI
    \/ ListToolsForGemini
    \/ \E toolName \in RegNames, args \in {EmptyObj} : DispatchCall(toolName, args)
    \/ DispatchSettle

SpecRegistry == InitRegistry /\ [][NextRegistry]_vars

\* a caller of convert_units and of get_latest_news
NextFunctions ==
    \/ \E args \in ConvertArgs : ConvertUnits(args)
    \/ ConvertBack
    \/ \E args \in NewsArgs, older \in BOOLEAN : GetLatestNews(args, older)
    \/ NewsFetchSettles

SpecFunctions == Init /\ [][NextFunctions]_vars

\* a caller of the places lookup, with every maxResults a caller may send
NextPlacesAll ==
    \/ \E args \in PlacesArgs, token \in Tokens : GetGooglePlaces(args, token)
    \/ PlacesStartSettles
    \/ PlacesPollSettles
    \/ PlacesTimerFires
    \/ PlacesItemsSettle

SpecPlacesAll == Init /\ [][NextPlacesAll]_vars

\* a caller of the places lookup that leaves maxResults out
NextPlaces ==
    \/ \E args \in { [city |-> Str("Rome"), query |-> Str("pizza")] }, token \in Tokens :
          GetGooglePlaces(args, token)
    \/ PlacesStartSettles
    \/ PlacesPollSettles
    \/ PlacesTimerFires
    \/ PlacesItemsSettle

SpecPlaces == Init /\ [][NextPlaces]_vars

\* the same caller when every request it sends is answered and every timer
\* it sets fires
PlacesProgress ==
    PlacesStartSettles \/ PlacesPollSettles \/ PlacesTimerFires \/ PlacesItemsSettle

SpecPlacesFair == SpecPlaces /\ WF_vars(PlacesProgress)

(***************************************************************************)
(* Properties of dispatch (SpecTools)                                      *)
(***************************************************************************)

\* C1: for every tool name and every arguments value, absent arguments
\* included, dispatch completes by returning a value and never raises to its
\* caller; when the registered handler raises or rejects with message m,
\* dispatch returns the object {error: m}.
C1_DispatchNeverRaises ==
    dcall.pc = "settled" =>
        /\ dcall.result.kind = "return"
        /\ (dcall.d.invoked /\ dcall.outcome.kind = "throw") =>
               dcall.result.value = [error |-> dcall.outcome.err.message]
        /\ (dcall.d.invoked /\ dcall.outcome.kind = "return") =>
               dcall.result.value = dcall.outcome.value

\* a handler invoked with absent arguments has raised and dispatch has returned
C1_Witness ==
    /\ dcall.pc = "settled"
    /\ dcall.args = Undefined
    /\ dcall.d.invoked
    /\ dcall.outcome.kind = "throw"
    /\ dcall.result = Return([error |-> "Apify run timed out."])

\* C2: dispatch of a name that is absent from the registry returns
\* {error: "Unknown tool: <name>"}, invokes no handler, never raises, and
\* leaves the registry unchanged.
C2_UnknownTool ==
    (dcall.pc # "idle" /\ dcall.toolName \notin DOMAIN dcall.registryBefore) =>
        /\ dcall.handlerRuns = 0
        /\ ~dcall.d.invoked
        /\ TOOL_REGISTRY = dcall.registryBefore
        /\ dcall.pc = "settled" =>
               /\ dcall.result.kind = "return"
               /\ dcall.result.value = [error |-> "Unknown tool: " \o dcall.toolName]

\* dispatch("get_weather", ...) has returned the unknown-tool object
C2_Witness ==
    /\ dcall.pc = "settled"
    /\ dcall.toolName = "get_weather"
    /\ dcall.toolName \notin DOMAIN TOOL_REGISTRY
    /\ dcall.result = Return([error |-> "Unknown tool: get_weather"])

(***************************************************************************)
(* Properties of the request handlers (Spec)                               *)
(***************************************************************************)
HasEv(log, e, n) == \E p \in DOMAIN log : log[p] = Ev(e, n)
CountEv(log, e) == Cardinality({p \in DOMAIN log : log[p].ev = e})
CountEvN(log, e, n) == Cardinality({p \in DOMAIN log : log[p] = Ev(e, n)})

RegistryBased(q) == q.endpoint \in {"/query", "/query-gemini"}

\* round 1 has answered (as opposed to failed)
FirstReturned(q) == HasEv(q.log, "llm_settled", 1) /\ q.firstOutcome.kind = "return"

\* round 2 has answered with a usable answer
FinalReturned(q) ==
    /\ HasEv(q.log, "llm_settled", 2)
    /\ q.finalOutcome.kind = "return"
    /\ q.endpoint # "/query-gemini" => q.finalOutcome.value.choices # <<>>

CarriesCall(p) == p.functionCall.t = "functionCall"

\* the tool names the round-1 answer lists, read off the answer as it arrived
NamedCalls(q) ==
    LET first == q.firstOutcome.value
    IN CASE q.endpoint = "/query" ->
              IF first.choices = <<>> \/ ~first.choices[1].has_tool_calls THEN <<>>
              ELSE [k \in 1..Len(first.choices[1].tool_calls) |->
                       first.choices[1].tool_calls[k].function.name]
         [] q.endpoint = "/query-gemini" ->
              IF first.candidates = <<>> THEN <<>>
              ELSE LET fcs == SelectSeq(first.candidates[1].parts, CarriesCall)
                   IN [k \in 1..Len(fcs) |-> fcs[k].functionCall.name]
         [] OTHER ->
              IF first.choices = <<>> \/ first.choices[1].function_call.t # "function_call"
              THEN <<>>
              ELSE <<first.choices[1].function_call.name>>

\* the argument string of the k-th call of a /query round-1 answer
ArgStringOf(q, k) == q.firstOutcome.value.choices[1].tool_calls[k].function.arguments
Parses(text) == text \in {"", GoodArgs}

LacksQuery(body) == body = Undefined \/ "query" \notin DOMAIN body

\* C3: a POST to /query or /query-gemini whose body is empty or lacks `query`
\* is answered with HTTP 400 and {error: "Missing 'query' in request body."},
\* and no provider call and no tool dispatch is made for it.
C3_MissingQuery400 ==
    \A r \in DOMAIN reqs :
        LET q == reqs[r]
        IN (q.pc # "idle" /\ LacksQuery(q.body)) =>
              /\ Len(q.res) = 1
              /\ q.res[1].status = 400
              /\ DOMAIN q.res[1].body = {"error"}
              /\ q.res[1].body.error = "Missing 'query' in request body."
              /\ CountEv(q.log, "llm_request") = 0
              /\ CountEv(q.log, "dispatch") = 0

\* C4: whenever round 1 names n >= 1 tool calls and round 2 is issued, the
\* round-2 history is the user query, the assistant's round-1 turn, and
\* exactly n tool results in the order of the calls, each referring to a
\* call of that turn (tool_call_id on /query, tool name on /query-gemini).
C4_Round2History ==
    \A r \in DOMAIN reqs :
        LET q == reqs[r]
            names == NamedCalls(q)
            n == Len(names)
        IN (RegistryBased(q) /\ HasEv(q.log, "llm_request", 2)) =>
              /\ n >= 1
              /\ IF q.endpoint = "/query"
                 THEN LET turn == q.firstOutcome.value.choices[1]
                      IN /\ Len(q.round2) = n + 2
                         /\ q.round2[1] = [role |-> "user", content |-> q.body.query]
                         /\ q.round2[2] = turn
                         /\ \A k \in 1..n :
                               /\ q.round2[2 + k].role = "tool"
                               /\ q.round2[2 + k].tool_call_id = turn.tool_calls[k].id
                               /\ q.round2[2 + k].name = names[k]
                 ELSE /\ Len(q.round2) = 3
                      /\ q.round2[1] = Content("user", <<Part(q.body.query, Undefined)>>)
                      /\ q.round2[2] = q.firstOutcome.value.candidates[1]
                      /\ q.round2[3].role = "function"
                      /\ Len(q.round2[3].parts) = n
                      /\ \A k \in 1..n :
                            q.round2[3].parts[k].functionResponse.name = names[k]

\* /query has issued round 2 after two tool calls
C4_Witness ==
    \E r \in DOMAIN reqs :
        /\ reqs[r].endpoint = "/query"
        /\ reqs[r].pc = "await_final"
        /\ Len(reqs[r].round2) = 4
        /\ reqs[r].round2[3].tool_call_id = "call_1"
        /\ reqs[r].round2[4].tool_call_id = "call_2"

\* C5: within one request round 1 completes before any tool is dispatched,
\* the calls are dispatched one at a time in the order round 1 listed them
\* (each only after the previous one returned), and round 2 is issued only
\* after every dispatch has returned.
C5_TotalOrder ==
    \A r \in DOMAIN reqs :
        LET q == reqs[r]
            log == q.log
        IN /\ \A p \in DOMAIN log :
                /\ log[p].ev = "llm_settled" => (p > 1 /\ log[p - 1] = Ev("llm_request", log[p].n))
                /\ log[p].ev = "dispatch" =>
                      /\ p > 1
                      /\ log[p - 1] = IF log[p].n = 1 THEN Ev("llm_settled", 1)
                                      ELSE Ev("dispatch_settled", log[p].n - 1)
                      /\ FirstReturned(q)
                      /\ log[p].n <= Len(NamedCalls(q))
                /\ log[p].ev = "dispatch_settled" =>
                      (p > 1 /\ log[p - 1] = Ev("dispatch", log[p].n))
                /\ log[p] = Ev("llm_request", 2) =>
                      /\ p > 1
                      /\ Len(NamedCalls(q)) >= 1
                      /\ log[p - 1] = Ev("dispatch_settled", Len(NamedCalls(q)))
           /\ CountEv(log, "dispatch") - CountEv(log, "dispatch_settled") \in {0, 1}
           /\ (q.pc \in {"await_dispatch", "await_tool"} /\ q.d.invoked) =>
                 q.d.handler = NamedCalls(q)[CountEv(log, "dispatch")]

\* /query-gemini has gone through round 1, two dispatches and issued round 2
C5_Witness ==
    \E r \in DOMAIN reqs :
        /\ reqs[r].endpoint = "/query-gemini"
        /\ reqs[r].log = << Ev("llm_request", 1), Ev("llm_settled", 1),
                            Ev("dispatch", 1), Ev("dispatch_settled", 1),
                            Ev("dispatch", 2), Ev("dispatch_settled", 2),
                            Ev("llm_request", 2) >>

\* the k-th dispatch of the request ended in a tool failure
ToolFailure(q, k) == ~q.settled[k].invoked \/ q.settled[k].outcome.kind = "throw"
ExpectedError(q, k) ==
    IF ~q.settled[k].invoked THEN "Unknown tool: " \o NamedCalls(q)[k]
    ELSE q.settled[k].outcome.err.message
AttachedResult(q, k) ==
    IF q.endpoint = "/query" THEN q.toolResponses[k].content.of
    ELSE q.toolResponses[k].functionResponse.response
AllArgsParse(q) ==
    q.endpoint = "/query" => \A k \in 1..Len(NamedCalls(q)) : Parses(ArgStringOf(q, k))

\* C6: in the registry-based handlers a tool failure (unknown name, or a
\* handler that raises) never produces an HTTP error: the {error: ...}
\* result is attached as that call's tool result, the remaining calls are
\* still dispatched, round 2 is still issued, and the request ends with 200
\* provided both provider calls succeed. (A 500 after a tool failure comes
\* only from round 2 failing or from an argument string that does not parse.)
C6_ToolFailureRecoverable ==
    \A r \in DOMAIN reqs :
        LET q == reqs[r]
            n == Len(NamedCalls(q))
        IN (RegistryBased(q) /\ FirstReturned(q)
              /\ \E k \in 1..Len(q.settled) : ToolFailure(q, k)) =>
              /\ \A k \in 1..Len(q.settled) :
                    ToolFailure(q, k) =>
                       /\ k <= Len(q.toolResponses)
                       /\ AttachedResult(q, k) = [error |-> ExpectedError(q, k)]
              /\ q.pc = "done" =>
                    /\ Len(q.res) = 1
                    /\ q.res[1].status \in {200, 500}
                    /\ q.res[1].status = 500 =>
                          \/ HasEv(q.log, "llm_settled", 2) /\ ~FinalReturned(q)
                          \/ ~AllArgsParse(q)
                    /\ FinalReturned(q) =>
                          /\ q.res[1].status = 200
                          /\ Len(q.settled) = n
                          /\ Len(q.toolResponses) = n
                    /\ AllArgsParse(q) =>
                          /\ HasEv(q.log, "llm_request", 2)
                          /\ \A k \in 1..n : HasEv(q.log, "dispatch", k)

\* /query: the first call's handler raised, the second call was still
\* dispatched, and the request ended with 200
C6_Witness ==
    \E r \in DOMAIN reqs :
        /\ reqs[r].endpoint = "/query"
        /\ reqs[r].pc = "done"
        /\ Len(reqs[r].settled) = 2
        /\ reqs[r].settled[1].outcome.kind = "throw"
        /\ reqs[r].toolResponses[1].content.of = [error |-> "APIFY_TOKEN is not set in environment."]
        /\ reqs[r].res[1].status = 200

\* server.js: the tool named by round 1 failed (it raised, or it is not one
\* of the two the handler knows) although its arguments parsed
LegacyToolFailed(q) ==
    /\ FirstReturned(q)
    /\ Len(NamedCalls(q)) = 1
    /\ q.firstOutcome.value.choices[1].function_call.arguments = GoodArgs
    /\ \/ NamedCalls(q)[1] \notin {"get_latest_news", "get_google_places"}
       \/ Len(q.settled) = 1 /\ q.settled[1].outcome.kind = "throw"

\* C7: in the two-tool /query handler of server.js a tool-level failure is
\* surfaced to the LLM as structured data for the summarization round and is
\* never visible to the HTTP client as an error status.
C7_LegacyToolFailureSurfaced ==
    \A r \in DOMAIN reqs :
        LET q == reqs[r]
        IN (q.endpoint = "server.js/query" /\ LegacyToolFailed(q)) =>
              /\ HasEv(q.log, "llm_request", 2)
              /\ \A p \in DOMAIN q.res : q.res[p].status < 400

\* the messages of the exceptions raised so far in a registry-based handler
ExceptionMessages(q) ==
    { m \in { "429 You exceeded your current quota",
              "Cannot read properties of undefined (reading 'message')",
              "Unexpected token t in JSON at position 1" } :
        \/ /\ m = "429 You exceeded your current quota"
           /\ \/ HasEv(q.log, "llm_settled", 1) /\ q.firstOutcome.kind = "throw"
              \/ HasEv(q.log, "llm_settled", 2) /\ q.finalOutcome.kind = "throw"
        \/ /\ m = "Cannot read properties of undefined (reading 'message')"
           /\ q.endpoint = "/query"
           /\ \/ FirstReturned(q) /\ q.firstOutcome.value.choices = <<>>
              \/ /\ HasEv(q.log, "llm_settled", 2) /\ q.finalOutcome.kind = "return"
                 /\ q.finalOutcome.value.choices = <<>>
        \/ /\ m = "Unexpected token t in JSON at position 1"
           /\ q.endpoint = "/query"
           /\ FirstReturned(q)
           /\ Len(q.settled) < Len(NamedCalls(q))
           /\ ~Parses(ArgStringOf(q, Len(q.settled) + 1)) }

\* C8: in /query and /query-gemini any exception raised after validation
\* (provider failure in round 1 or 2, JSON parse failure on a tool call's
\* argument string) ends the request with HTTP 500 and a body whose only
\* field is `error`, holding the exception's message.
C8_Exception500 ==
    \A r \in DOMAIN reqs :
        LET q == reqs[r]
        IN RegistryBased(q) =>
              /\ ExceptionMessages(q) # {} =>
                    /\ q.pc = "done"
                    /\ Len(q.res) = 1
                    /\ q.res[1].status = 500
                    /\ DOMAIN q.res[1].body = {"error"}
                    /\ ExceptionMessages(q) = {q.res[1].body.error}
              /\ \A p \in DOMAIN q.res :
                    q.res[p].status = 500 =>
                       /\ DOMAIN q.res[p].body = {"error"}
                       /\ ExceptionMessages(q) # {}

\* /query: the second call's argument string failed to parse after the first
\* call had been dispatched
C8_Witness ==
    \E r \in DOMAIN reqs :
        /\ reqs[r].endpoint = "/query"
        /\ Len(reqs[r].settled) = 1
        /\ Len(NamedCalls(reqs[r])) = 2
        /\ reqs[r].res = <<[status |-> 500,
                            body |-> [error |-> "Unexpected token t in JSON at position 1"]]>>

\* C9: on /query, when the round-1 response names zero tool calls the
\* handler responds at once with {response, tokens_used, estimated_cost_usd}
\* built from round 1 only: no tool is dispatched and no round 2 is made.
C9_NoToolDirectAnswer ==
    \A r \in DOMAIN reqs :
        LET q == reqs[r]
            first == q.firstOutcome.value
        IN (q.endpoint = "/query" /\ FirstReturned(q)
              /\ first.choices # <<>> /\ Len(NamedCalls(q)) = 0) =>
              /\ q.pc = "done"
              /\ Len(q.res) = 1
              /\ q.res[1].status = 200
              /\ DOMAIN q.res[1].body = {"response", "tokens_used", "estimated_cost_usd"}
              /\ q.res[1].body.response = first.choices[1].content
              /\ q.res[1].body.tokens_used = UsageField(first.usage, "total_tokens")
              /\ q.res[1].body.estimated_cost_usd =
                    5 * UsageField(first.usage, "prompt_tokens")
                    + 15 * UsageField(first.usage, "completion_tokens")
              /\ CountEv(q.log, "dispatch") = 0
              /\ CountEv(q.log, "llm_request") = 1

\* /query answered directly from a round 1 that reported 1500 tokens
C9_Witness ==
    \E r \in DOMAIN reqs :
        /\ reqs[r].endpoint = "/query"
        /\ reqs[r].pc = "done"
        /\ reqs[r].log = <<Ev("llm_request", 1), Ev("llm_settled", 1), Ev("respond", 200)>>
        /\ "response" \in DOMAIN reqs[r].res[1].body
        /\ reqs[r].res[1].body.tokens_used = 1500
        /\ reqs[r].res[1].body.estimated_cost_usd = 12500

\* the round-2 answer itself asked for a tool
FinalAsksForTool(q) ==
    /\ FinalReturned(q)
    /\ IF q.endpoint = "/query" THEN q.finalOutcome.value.choices[1].has_tool_calls
       ELSE IF q.endpoint = "/query-gemini"
       THEN /\ q.finalOutcome.value.candidates # <<>>
            /\ \E k \in DOMAIN q.finalOutcome.value.candidates[1].parts :
                  CarriesCall(q.finalOutcome.value.candidates[1].parts[k])
       ELSE q.finalOutcome.value.choices[1].function_call.t = "function_call"

\* C10: every request makes at most two provider calls (exactly one when
\* round 1 names no tool call, exactly two when it names at least one and
\* nothing fails), nothing is repeated after a failure, each tool call named
\* in round 1 is dispatched at most once, and tool calls requested by the
\* round-2 response are never executed.
C10_TwoRoundsNoRetry ==
    \A r \in DOMAIN reqs :
        LET q == reqs[r]
            log == q.log
        IN /\ CountEv(log, "llm_request") <= 2
           /\ CountEvN(log, "llm_request", 1) <= 1
           /\ CountEvN(log, "llm_request", 2) <= 1
           /\ CountEv(log, "llm_request") = CountEvN(log, "llm_request", 1)
                                            + CountEvN(log, "llm_request", 2)
           /\ \A p \in DOMAIN log :
                 /\ log[p].ev = "dispatch" =>
                       /\ CountEvN(log, "dispatch", log[p].n) = 1
                       /\ log[p].n <= Len(NamedCalls(q))
                       /\ \A p0 \in 1..p : log[p0] # Ev("llm_request", 2)
                 /\ log[p].ev = "respond" => p = Len(log)
           /\ (q.pc = "done" /\ FirstReturned(q) /\ Len(NamedCalls(q)) = 0) =>
                 CountEv(log, "llm_request") = 1
           /\ (q.pc = "done" /\ FirstReturned(q) /\ Len(NamedCalls(q)) >= 1
                 /\ q.res[Len(q.res)].status = 200) =>
                 /\ CountEv(log, "llm_request") = 2
                 /\ CountEv(log, "dispatch") = Len(NamedCalls(q))

\* a request ended with 200 after two dispatches although the round-2 answer
\* asked for another tool
C10_Witness ==
    \E r \in DOMAIN reqs :
        /\ reqs[r].pc = "done"
        /\ reqs[r].res[1].status = 200
        /\ FinalAsksForTool(reqs[r])
        /\ CountEv(reqs[r].log, "dispatch") = 2
        /\ CountEv(reqs[r].log, "llm_request") = 2

(***************************************************************************)
(* The registry and its catalog projections                                *)
(***************************************************************************)
\* the catalog fields of a tool, as its latest registration gave them
EntryOf(reg) ==
    [name |-> reg.spec.name, description |-> reg.spec.description,
     parameters |-> reg.spec.parameters]

\* the entries are exactly one per registered name, each unchanged
ExactCatalog(entries) ==
    /\ Len(entries) = Cardinality(DOMAIN rcall.latest)
    /\ \A n \in DOMAIN rcall.latest :
          \E k \in 1..Len(entries) : entries[k] = EntryOf(rcall.latest[n])

\* C11: after N tools were registered, listToolsForOpenAI returns exactly N
\* entries of type "function" and listToolsForGemini returns one element whose
\* functionDeclarations holds exactly N entries; every entry carries the name,
\* description and parameters given at registration, whenever and however
\* often the two projections are called
C11_CatalogProjectionsExact ==
    /\ rcall.op = "listToolsForOpenAI" =>
          /\ \A k \in 1..Len(rcall.listed) : rcall.listed[k].type = "function"
          /\ ExactCatalog([k \in 1..Len(rcall.listed) |-> rcall.listed[k].function])
    /\ rcall.op = "listToolsForGemini" =>
          /\ Len(rcall.listed) = 1
          /\ ExactCatalog(rcall.listed[1].functionDeclarations)

C11_Witness ==
    /\ rcall.op = "listToolsForGemini"
    /\ Len(rcall.listed[1].functionDeclarations) = 2
    /\ \E n \in DOMAIN TOOL_REGISTRY : TOOL_REGISTRY[n].description # BootRegistry[n].description

\* C12: the registry holds at most one entry per name, the entry of a name is
\* the descriptor and handler of the latest successful registration of that
\* name, and a dispatch of the name made on that registry invokes that handler
\* and no other
C12_LastWriteWins ==
    /\ DOMAIN TOOL_REGISTRY = DOMAIN rcall.latest
    /\ Len(registryOrder) = Cardinality(DOMAIN TOOL_REGISTRY)
    /\ { registryOrder[k] : k \in 1..Len(registryOrder) } = DOMAIN TOOL_REGISTRY
    /\ \A n \in DOMAIN TOOL_REGISTRY :
          TOOL_REGISTRY[n] = Descriptor(n, rcall.latest[n].spec.description,
                                        rcall.latest[n].spec.parameters,
                                        rcall.latest[n].handler)
    /\ (/\ dcall.pc # "idle"
        /\ dcall.registryBefore = TOOL_REGISTRY
        /\ dcall.toolName \in DOMAIN rcall.latest)
          => /\ dcall.d.invoked
             /\ dcall.d.handler = rcall.latest[dcall.toolName].handler
             /\ dcall.handlerRuns = 1

C12_Witness ==
    /\ rcall.op = "registerTool" /\ ~rcall.threw
    /\ rcall.spec.name \in DOMAIN rcall.before
    /\ rcall.before[rcall.spec.name].handler # rcall.handler
    /\ rcall.before[rcall.spec.name].description # rcall.spec.description
    /\ dcall.pc = "settled"
    /\ dcall.toolName = rcall.spec.name
    /\ dcall.registryBefore = TOOL_REGISTRY
    /\ dcall.d.handler = rcall.handler

\* C13: registerTool called with no name or with the empty name throws
\* "Tool must have a name" in the call itself and leaves the registry as it was
C13_NamelessRegistrationRejected ==
    (rcall.op = "registerTool" /\ ~NameGiven(rcall.spec))
       => /\ rcall.threw
          /\ rcall.error = "Tool must have a name"
          /\ TOOL_REGISTRY = rcall.before
          /\ registryOrder = rcall.beforeOrder

C13_Witness ==
    /\ rcall.op = "registerTool"
    /\ "name" \notin DOMAIN rcall.spec
    /\ rcall.threw
    /\ Cardinality(DOMAIN TOOL_REGISTRY) = 2


(***************************************************************************)
(* Properties of the tool functions called directly                        *)
(***************************************************************************)
ConvertDone == fn.f = "convert_units" /\ fn.pc = "done"
KnownKind(kind) ==
    kind.t = "str" /\ toLowerCase(kind.v) \in {"c_to_f", "f_to_c", "km_to_miles"}
NumericValue(args) == ~IsNaN(Number(Prop(args, "value")))

\* C14: convert_units never raises: whatever the kind (known, unknown, in
\* another case, absent or not a string) and whatever the value, it returns
\* {input, output, unit} or {error}; a value that is not numeric gives
\* {error: "value must be a number"}, and a numeric value with a kind that is
\* not recognised gives {error: "unknown kind: <kind>"}
C14_ConvertNeverRaises ==
    ConvertDone =>
       /\ fn.result.kind = "return"
       /\ DOMAIN fn.result.value \in {{"input", "output", "unit"}, {"error"}}
       /\ ~NumericValue(fn.args) =>
             fn.result.value = [error |-> "value must be a number"]
       /\ (NumericValue(fn.args) /\ ~KnownKind(Prop(fn.args, "kind"))) =>
             fn.result.value =
                [error |-> "unknown kind: " \o TemplateString(Prop(fn.args, "kind"))]

PlacesRequestBuilt == fn.f = "get_google_places" /\ fn.sent # Undefined

\* C16: whatever maxResults is supplied (any integer, negative, zero, huge,
\* not a number, or absent), the maxCrawledPlacesPerSearch sent in the
\* start-run request is an integer between 1 and 200
C16_UpstreamCapInRange ==
    PlacesRequestBuilt =>
       /\ fn.sent.t = "q"
       /\ fn.sent.den = 1
       /\ fn.sent.num >= 1
       /\ fn.sent.num <= 200

C16_Witness ==
    /\ PlacesRequestBuilt
    /\ fn.pc = "polling"
    /\ Prop(fn.args, "maxResults") = Whole(-2147483647)
    /\ fn.sent = Whole(1)

ClampOf(n) == IF n < 1 THEN 1 ELSE IF n > 200 THEN 200 ELSE n
NotANumber(m) == m.t \in {"undefined", "null", "bool"} \/ m = Str("abc")

\* C17: the value sent upstream is the supplied maxResults clamped to
\* [1, 200], min(max(n, 1), 200) for every integer n, and 50 when maxResults
\* is not a number or is absent: 500 gives 200, 0 gives 1, absent gives 50
C17_UpstreamCapValue ==
    PlacesRequestBuilt =>
       LET m == Prop(fn.args, "maxResults")
       IN /\ (m.t = "q" /\ m.den = 1) => fn.sent = Whole(ClampOf(m.num))
          /\ NotANumber(m) => fn.sent = Whole(50)

PlacesPolling == fn.f = "get_google_places" /\ fn.pc \in {"polling", "sleeping"}
PlacesDone == fn.f = "get_google_places" /\ fn.pc = "done"
TimedOut ==
    fn.result.kind = "throw" /\ fn.result.err = Err("Error", "Apify run timed out.")
\* every status check so far was answered with a status that is not terminal
OnlyNonTerminalSeen == fn.onlyRunning /\ fn.lastStatus # ""

\* C18: the polling of a started run always comes to an end; when every
\* status check reported a status that is not terminal, it ends after the
\* checks made 2000 ms apart have used up the budget, with the error
\* "Apify run timed out." and without any dataset fetch
C18_PollingTerminates ==
    /\ PlacesPolling ~> (fn.pc \in {"items", "done"})
    /\ []((PlacesDone /\ OnlyNonTerminalSeen) =>
             (TimedOut /\ fn.datasetFetches = 0
              /\ fn.now - fn.startTime > maxWaitMs))

C18_Witness ==
    /\ PlacesDone /\ OnlyNonTerminalSeen /\ TimedOut
    /\ fn.issuedAt - fn.startTime = maxWaitMs + pollIntervalMs
    /\ fn.now = fn.issuedAt

\* C19: the polling loop has a hard budget of 120000 ms: once more than that
\* has elapsed since polling started and no terminal status was seen, the
\* call has failed with the timeout error, and no result is ever returned on
\* the strength of a status check made after the budget was exceeded
C19_HardPollingBudget ==
    /\ (/\ fn.f = "get_google_places" /\ fn.pc \in {"sleeping", "done"}
        /\ OnlyNonTerminalSeen
        /\ fn.now - fn.startTime > maxWaitMs)
          => (fn.pc = "done" /\ TimedOut)
    /\ (PlacesDone /\ fn.result.kind = "return")
          => fn.issuedAt - fn.startTime <= maxWaitMs

NewsDone == fn.f = "get_latest_news" /\ fn.pc = "done"
\* the body of the news API's response was parsed and has no `articles` field
NoArticlesField == fn.newsData # Undefined /\ "articles" \notin DOMAIN fn.newsData

\* C20: when the response of the news API has no `articles` field,
\* get_latest_news, in functions.js and in its older copy, returns
\* {error: "No articles found or invalid response."}: it neither raises nor
\* returns a list; and every invocation makes exactly one upstream request
C20_NoArticlesGivesError ==
    /\ (NewsDone /\ NoArticlesField) =>
          /\ fn.result.kind = "return"
          /\ fn.result.value = [error |-> "No articles found or invalid response."]
    /\ (fn.f = "get_latest_news" /\ fn.pc \in {"fetching", "done"}) =>
          fn.newsFetches = 1

C20_Witness ==
    /\ NewsDone /\ NoArticlesField /\ fn.older
    /\ fn.newsData.code = "apiKeyInvalid"
    /\ fn.result = Return([error |-> "No articles found or invalid response."])

\* the body of the news API's response was parsed and carries an articles array
HasArticlesArray ==
    /\ fn.newsData # Undefined
    /\ "articles" \in DOMAIN fn.newsData
    /\ fn.newsData.articles.t = "array"
HasSource(a) == "source" \in DOMAIN a /\ a.source # Null

\* C21: when the response of the news API carries an articles array,
\* get_latest_news, in functions.js and in its older copy, returns an array of
\* at most five records, one per article, each with title, source, url and
\* publishedAt; an article without a source gives a record whose source is
\* absent, not a failure
C21_ArticlesMapped ==
    (NewsDone /\ HasArticlesArray) =>
       LET arts == fn.newsData.articles.items
       IN /\ fn.result.kind = "return"
          /\ fn.result.value.t = "array"
          /\ Len(fn.result.value.items) = Len(arts)
          /\ Len(fn.result.value.items) <= 5
          /\ \A k \in 1..Len(arts) :
                LET rec == fn.result.value.items[k]
                IN /\ DOMAIN rec = {"title", "source", "url", "publishedAt"}
                   /\ rec.title = arts[k].title
                   /\ rec.url = arts[k].url
                   /\ rec.publishedAt = arts[k].publishedAt
                   /\ rec.source = IF HasSource(arts[k])
                                   THEN arts[k].source.name ELSE Undefined


(***************************************************************************)
(* Accounting, validation and isolation of the registry-based handlers     *)
(***************************************************************************)
\* the provider answers a /query request has received: round 1, and round 2
\* once it has been made and answered
UsagesSeen(q) ==
    <<q.firstOutcome.value.usage>>
    \o (IF HasEv(q.log, "llm_settled", 2) /\ q.finalOutcome.kind = "return"
        THEN <<q.finalOutcome.value.usage>> ELSE <<>>)

RECURSIVE SumField(_, _)
SumField(usages, f) ==
    IF usages = <<>> THEN 0
    ELSE UsageField(Head(usages), f) + SumField(Tail(usages), f)

\* C22: on /query, tokens_used of a success response is the sum of the
\* total_tokens of the provider calls the request made (round 1 alone on the
\* no-tool path, rounds 1 and 2 on the tool path, a missing usage or field
\* counting as 0), and estimated_cost_usd in millionths of a dollar is
\* 5 x (sum of prompt_tokens) + 15 x (sum of completion_tokens) of the same
\* calls.
C22_UsageTotals ==
    \A r \in DOMAIN reqs :
        LET q == reqs[r]
        IN \A p \in DOMAIN q.res :
              (q.endpoint = "/query" /\ q.res[p].status = 200) =>
                 /\ Len(UsagesSeen(q)) = CountEv(q.log, "llm_request")
                 /\ q.res[p].body.tokens_used = SumField(UsagesSeen(q), "total_tokens")
                 /\ q.res[p].body.estimated_cost_usd =
                       5 * SumField(UsagesSeen(q), "prompt_tokens")
                       + 15 * SumField(UsagesSeen(q), "completion_tokens")

\* the tool path, round 1 reporting 1500 tokens and round 2 prompt tokens only
C22_Witness ==
    \E r \in DOMAIN reqs :
        /\ reqs[r].endpoint = "/query"
        /\ reqs[r].pc = "done"
        /\ Len(reqs[r].res) = 1
        /\ "summary" \in DOMAIN reqs[r].res[1].body
        /\ UsagesSeen(reqs[r]) = <<Usage(1000, 500, 1500), PartialUsage>>
        /\ reqs[r].res[1].body.tokens_used = 1500
        /\ reqs[r].res[1].body.estimated_cost_usd = 12535


NonEmptyString(x) == x.t = "str" /\ x.v # ""

\* C23: /query and /query-gemini accept a request only if `query` is a
\* non-empty string: a request whose `query` is present but is not a
\* non-empty string (empty string, number, boolean, object, array) is
\* answered with the 400 client-error response and makes no provider call.
C23_QueryMustBeNonEmptyString ==
    \A r \in DOMAIN reqs :
        LET q == reqs[r]
        IN (RegistryBased(q) /\ "query" \in DOMAIN q.body
              /\ ~NonEmptyString(q.body.query)) =>
              /\ q.res = <<[status |-> 400, body |-> MissingQuery]>>
              /\ CountEv(q.log, "llm_request") = 0


\* what the k-th dispatch of a request resolved to, from its own handler run
OwnResult(q, k) ==
    IF ToolFailure(q, k) THEN [error |-> ExpectedError(q, k)]
    ELSE q.settled[k].outcome.value

\* C24: once the four tools are registered at bootstrap no request handler,
\* dispatch or catalog projection adds, replaces or removes a registry entry:
\* under any interleaving of concurrent /query and /query-gemini requests the
\* registry keeps its post-bootstrap contents, and the tokens_used, cost and
\* tool-result list of a request are determined by that request's own
\* provider responses and tool results alone.
C24_RequestsIsolated ==
    /\ TOOL_REGISTRY = BootRegistry
    /\ registryOrder = <<"get_latest_news", "get_google_places", "convert_units", "get_time">>
    /\ \A r \in DOMAIN reqs :
          LET q == reqs[r]
          IN RegistryBased(q) =>
                /\ Len(q.toolResponses) <= Len(q.settled)
                /\ \A k \in 1..Len(q.toolResponses) : AttachedResult(q, k) = OwnResult(q, k)
                /\ \A p \in DOMAIN q.res :
                      (q.endpoint = "/query" /\ q.res[p].status = 200) =>
                         /\ q.res[p].body.tokens_used = SumField(UsagesSeen(q), "total_tokens")
                         /\ q.res[p].body.estimated_cost_usd =
                               5 * SumField(UsagesSeen(q), "prompt_tokens")
                               + 15 * SumField(UsagesSeen(q), "completion_tokens")

\* two requests side by side: one /query answered on the tool path with its
\* own totals and tool result, while a /query-gemini request holding another
\* tool result waits for its round 2
C24_Witness ==
    /\ reqs["req1"].endpoint = "/query"
    /\ reqs["req1"].pc = "done"
    /\ Len(reqs["req1"].res) = 1
    /\ reqs["req1"].res[1].status = 200
    /\ Len(reqs["req1"].toolResponses) = 1
    /\ reqs["req1"].toolResponses[1].content.of = [items |-> "articles"]
    /\ reqs["req1"].res[1].body.tokens_used = 3000
    /\ reqs["req2"].endpoint = "/query-gemini"
    /\ reqs["req2"].pc = "await_final"
    /\ Len(reqs["req2"].toolResponses) = 1
    /\ reqs["req2"].toolResponses[1].functionResponse.response
          = [error |-> "Apify run timed out."]


(***************************************************************************)
(* Properties of setup-secrets.sh (SpecSecrets)                            *)
(***************************************************************************)
CmdsOf(run, cmd) == {p \in DOMAIN sh.log : sh.log[p].run = run /\ sh.log[p].cmd = cmd}
AllExist(store) == \A s \in SecretNames : store[s] # "absent"
RunFinished(run) == sh.run = run /\ sh.pc = "exit" /\ sh.status = 0

PlacesCalled == fn.f = "get_google_places" /\ fn.pc # "idle"
PlacesFailedWith(message) ==
    /\ fn.pc = "done"
    /\ fn.result.kind = "throw"
    /\ fn.result.err = Err("Error", message)

\* C26: in get_google_places the dataset is fetched at most once per
\* invocation, and only after a status check has reported SUCCEEDED for the
\* started run and that run record carries a dataset identifier; a SUCCEEDED
\* run without a dataset identifier fails the call without any dataset fetch.
C26_DatasetFetchedOnce ==
    PlacesCalled =>
       /\ fn.datasetFetches <= 1
       /\ ("dataset" \in fn.requests) = (fn.datasetFetches = 1)
       /\ fn.datasetFetches = 1 =>
             /\ {"start", "status"} \subseteq fn.requests
             /\ fn.lastStatus = "SUCCEEDED"
             /\ fn.lastDatasetId # ""
       /\ (fn.lastStatus = "SUCCEEDED" /\ fn.lastDatasetId = "") =>
             /\ PlacesFailedWith("No datasetId on Apify run result.")
             /\ fn.datasetFetches = 0

\* a SUCCEEDED run with a dataset identifier: the dataset was fetched once
\* and the call returned its places
C26_Witness ==
    /\ PlacesCalled
    /\ fn.pc = "done"
    /\ fn.result.kind = "return"
    /\ fn.lastStatus = "SUCCEEDED"
    /\ fn.lastDatasetId = "ds1"
    /\ fn.datasetFetches = 1
    /\ fn.requests = {"start", "status", "dataset"}

FailingStatuses == {"FAILED", "ABORTED", "TIMED-OUT"}

\* C27: when a status check reports a terminal status other than SUCCEEDED
\* (FAILED, ABORTED or TIMED-OUT), get_google_places stops polling at once,
\* makes no dataset fetch, and fails with a message naming that status;
\* through dispatch this becomes {error: "Apify run ended with status: <status>"}.
C27_FailedRunStopsPolling ==
    (PlacesCalled /\ fn.lastStatus \in FailingStatuses) =>
       /\ fn.pc = "done"
       /\ "dataset" \notin fn.requests
       /\ fn.datasetFetches = 0
       /\ fn.result.kind = "throw"
       /\ fn.result.err.message = "Apify run ended with status: " \o fn.lastStatus
       /\ dispatchSettle(fn.result)
             = Return([error |-> "Apify run ended with status: " \o fn.lastStatus])

\* the run was reported RUNNING, then ABORTED two seconds later
C27_Witness ==
    /\ PlacesCalled
    /\ fn.pc = "done"
    /\ fn.lastStatus = "ABORTED"
    /\ fn.now >= pollIntervalMs
    /\ fn.result.kind = "throw"

\* the start request came back with a run identifier
RunStarted ==
    /\ fn.startOutcome.kind = "return"
    /\ fn.startOutcome.value.ok
    /\ "data" \in DOMAIN fn.startOutcome.value.json
    /\ "id" \in DOMAIN fn.startOutcome.value.json.data
    /\ fn.startOutcome.value.json.data.id # ""

\* C28: when the platform credential APIFY_TOKEN is not set,
\* get_google_places fails before step 1: no start-run, status-check or
\* dataset request is ever sent; and in general no status check is sent
\* unless the start-run request succeeded and returned a run identifier.
C28_NoRequestWithoutToken ==
    PlacesCalled =>
       /\ fn.token \in {Undefined, Str("")} =>
             /\ fn.requests = {}
             /\ fn.datasetFetches = 0
             /\ PlacesFailedWith("APIFY_TOKEN is not set in environment.")
       /\ "status" \in fn.requests => ("start" \in fn.requests /\ RunStarted)
       /\ "dataset" \in fn.requests => "status" \in fn.requests

\* the call was made with an empty APIFY_TOKEN and has failed
C28_Witness ==
    /\ PlacesCalled
    /\ fn.token = Str("")
    /\ fn.pc = "done"
    /\ fn.requests = {}
    /\ fn.result.kind = "throw"


(***************************************************************************)
(* Argument strings that do not parse, and the one response per request    *)
(***************************************************************************)
\* the calls of a /query round-1 answer whose argument string does not parse
Unparsable(q) == {k \in 1..Len(NamedCalls(q)) : ~Parses(ArgStringOf(q, k))}
FirstUnparsable(q) == CHOOSE k \in Unparsable(q) : \A j \in Unparsable(q) : k <= j

\* C29: on /query, if the argument string of the k-th tool call named in
\* round 1 fails to parse as JSON, then exactly the first k-1 calls have been
\* dispatched, the k-th and all later calls are never dispatched, round 2 is
\* never issued, and the request ends with HTTP 500.
C29_ParseFailureStopsLoop ==
    \A r \in DOMAIN reqs :
        LET q == reqs[r]
        IN (q.endpoint = "/query" /\ FirstReturned(q)
              /\ q.firstOutcome.value.choices # <<>> /\ Unparsable(q) # {}) =>
              LET k == FirstUnparsable(q)
              IN /\ \A j \in 1..Len(NamedCalls(q)) : j >= k => ~HasEv(q.log, "dispatch", j)
                 /\ ~HasEv(q.log, "llm_request", 2)
                 /\ q.pc \in {"await_dispatch", "done"}
                 /\ q.pc = "await_dispatch" => CountEv(q.log, "dispatch") <= k - 1
                 /\ q.pc = "done" =>
                       /\ \A j \in 1..(k - 1) :
                             CountEvN(q.log, "dispatch", j) = 1
                             /\ CountEvN(q.log, "dispatch_settled", j) = 1
                       /\ Len(q.settled) = k - 1
                       /\ Len(q.res) = 1
                       /\ q.res[1].status = 500
                       /\ q.res[1].body =
                             [error |-> JSONParse(ArgStringOf(q, k)).err.message]

\* round 1 named get_time and then a call whose arguments are cut short:
\* get_time ran, the second call did not, and the request ended with 500
C29_Witness ==
    \E r \in DOMAIN reqs :
        /\ reqs[r].endpoint = "/query"
        /\ reqs[r].pc = "done"
        /\ Len(reqs[r].settled) = 1
        /\ FirstReturned(reqs[r])
        /\ NamedCalls(reqs[r]) = <<"get_time", "get_latest_news">>
        /\ ArgStringOf(reqs[r], 1) = ""
        /\ ArgStringOf(reqs[r], 2) = "{topic:"
        /\ reqs[r].log = << Ev("llm_request", 1), Ev("llm_settled", 1),
                            Ev("dispatch", 1), Ev("dispatch_settled", 1),
                            Ev("respond", 500) >>


Answered(q) == q.pc \in {"done", "rejected"} /\ Len(q.res) = 1

==============================================================================
